---- MODULE Spec2Model ----
(***************************************************************************)
(* Model of the PDF helpers of pdf_generator (utils/pdf_helpers.py):       *)
(* merge_pdf_pages, wrap_text, draw_underlined_text, draw_text_with_urls,  *)
(* of the template generators (templates/*/generator.py, static_pages.py)  *)
(* and of the document assembly (main.py).                                 *)
(*                                                                         *)
(* Strings are sequences of one-character strings, file paths are          *)
(* sequences of path tokens, a PDF file is the sequence of its pages, and  *)
(* widths are integers (stringWidth is the sum of the glyph widths).       *)
(***************************************************************************)
EXTENDS Integers, Sequences, FiniteSets, TLC

VARIABLES
    \* ---- merge_pdf_pages ----
    HAS_PYPDF,          \* module flag set by the import block
    fs,                 \* the filesystem: path -> file
    fs_before,          \* the filesystem when merge_pdf_pages was entered
    pc,                 \* position inside merge_pdf_pages
    source_pdf_path, target_pdf_path, start_page,   \* the arguments
    source_reader, target_reader,                   \* pages read, or None
    writer,             \* pages added to the PdfWriter
    merged_path,        \* the intermediate path, or None
    log,                \* what was printed, in order
    result,             \* the returned value, or None
    \* ---- wrap_text and draw_text_with_urls ----
    text, max_width,    \* arguments of both
    lines,              \* wrap_text: the returned list, or None
    wrap_pc,            \* "idle" before wrap_text is called, "done" after
    url, x, y,          \* draw_text_with_urls: the other arguments
    canvas_obj,         \* the canvas: its graphics state and what was drawn
    current_x,          \* draw_text_with_urls: the returned x, or None
    draw_pc,            \* "idle", then "done" or "raised"
    \* ---- template generators ----
    data,               \* the Document Request (a dict: key -> value)
    template,           \* which generator is called
    bg_images,          \* state of the two background image files
    gen_pc,             \* "idle", then "done" or "raised"
    gen_log,            \* warnings printed by the generator
    \* ---- main ----
    main_pc,            \* position inside main
    output_before,      \* the file at the output path when main started
    calls,              \* the functions main has called, in order
    run                 \* concurrent runs of main: run -> its position and locals

mergeVars == <<HAS_PYPDF, fs, fs_before, pc, source_pdf_path, target_pdf_path,
               start_page, source_reader, target_reader, writer, merged_path,
               log, result>>

textVars == <<text, max_width, lines, wrap_pc, url, x, y, canvas_obj,
              current_x, draw_pc>>

genVars == <<data, template, bg_images, gen_pc, gen_log>>

mainVars == <<main_pc, output_before, calls, run>>

vars == <<mergeVars, textVars, genVars, mainVars>>

None == <<"None">>

----------------------------------------------------------------------------
(* Bounds *)
MaxTargetPages == 2
MaxSourcePages == 3
MaxStart == 4
MaxTextLen == 5
MaxWidth == 5
MaxLineLen == 5
MaxUrlLen == 2

----------------------------------------------------------------------------
(* Generic sequence helpers *)

RECURSIVE Flatten(_)
Flatten(ss) == IF ss = <<>> THEN <<>> ELSE Head(ss) \o Flatten(Tail(ss))

Range(s) == {s[i] : i \in 1..Len(s)}

----------------------------------------------------------------------------
(* Files and paths *)

\* a path is a sequence of tokens; ".pdf" is the substring str.replace looks for
TempPdf   == <<"results/output_temp", ".pdf">>
BarePath  == <<"results/output_temp">>
FormatPdf == <<"format/letter", ".pdf">>
OutputPdf == <<"results/output", ".pdf">>

\* target_pdf_path.replace('.pdf', '_merged.pdf')
MergedPathOf(path) ==
    Flatten([i \in 1..Len(path) |->
               IF path[i] = ".pdf" THEN <<"_merged", ".pdf">> ELSE <<path[i]>>])

TargetPaths == {TempPdf, BarePath}
SourcePaths == {FormatPdf}
Paths ==
    TargetPaths \cup SourcePaths \cup {MergedPathOf(p) : p \in TargetPaths}
      \cup {OutputPdf}

NoFile      == [exists |-> FALSE, valid |-> FALSE, pages |-> <<>>]
\* a file that exists but is not a readable PDF (empty, cut short, damaged)
BrokenFile  == [exists |-> TRUE,  valid |-> FALSE, pages |-> <<>>]
PdfFile(ps) == [exists |-> TRUE,  valid |-> TRUE,  pages |-> ps]

TargetPages(m) == [i \in 1..m |-> <<"q", i - 1>>]
SourcePages(k) == [i \in 1..k |-> <<"p", i - 1>>]

\* os.path.exists
os_path_exists(f, path) == f[path].exists

\* PdfReader(path): raises unless the file is a readable PDF
ReaderRaises(f, path) == ~f[path].exists \/ ~f[path].valid

\* os.replace(src, dst)
os_replace(f, src, dst) ==
    IF src = dst THEN f
    ELSE [f EXCEPT ![dst] = f[src], ![src] = NoFile]

\* open(path, 'wb'): creates the file or cuts it to zero bytes
open_wb(f, path) == [f EXCEPT ![path] = BrokenFile]

----------------------------------------------------------------------------
(* Canvas and strings *)

BLACK == <<0, 0, 0>>
BLUE  == <<0, 0, 1>>
GREY  == <<5, 5, 5>>

\* a canvas before anything is drawn on it
\* ops is what was drawn on the open page, pages the pages closed so far;
\* slots names, for each entry of ops, the field of the template it belongs to
NewCanvas(fill) ==
    [font |-> "none", fill |-> fill, stroke |-> BLACK, lineWidth |-> "1",
     ops |-> <<>>, slots |-> <<>>, pages |-> <<>>]

\* the generator and main variables while they do not run
RestIdle ==
    /\ data = <<>> /\ template = "none"
    /\ bg_images = <<"missing", "missing">>
    /\ gen_pc = "idle" /\ gen_log = <<>>
    /\ main_pc = "idle" /\ output_before = None /\ calls = <<>>
    /\ run = None

\* the text-component variables while only merge_pdf_pages runs
TextIdle ==
    /\ text = <<>> /\ max_width = 0 /\ lines = None /\ wrap_pc = "idle"
    /\ url = <<>> /\ x = 0 /\ y = 0 /\ canvas_obj = NewCanvas(BLACK)
    /\ current_x = None /\ draw_pc = "idle"

----------------------------------------------------------------------------
(* merge_pdf_pages *)

LibraryMissing_always == FALSE
\* "if not HAS_PYPDF"
LibraryMissing == ~HAS_PYPDF

SourceLongEnough_ge(n, s) == n >= s
\* "if len(source_reader.pages) > start_page"
SourceLongEnough(n, s) == n > s

\* pages[i] of a page list of a reader, Python indexing (0-based, negative
\* indices count from the end); the index is in range
PyIndex(pages, i) == IF i >= 0 THEN pages[i + 1] ELSE pages[Len(pages) + i + 1]
PyIndexRaises(pages, i) == i >= Len(pages) \/ i < -Len(pages)

SourceSlice_skipfirst(pages, s) ==
    [j \in 1..(Len(pages) - s - 1) |-> PyIndex(pages, s + j)]
\* "for page_num in range(start_page, len(source_reader.pages))"
SourceSlice(pages, s) ==
    [j \in 1..(Len(pages) - s) |-> PyIndex(pages, s + j - 1)]
SourceSliceRaises(pages, s) ==
    \E j \in 1..(Len(pages) - s) : PyIndexRaises(pages, s + j - 1)

InitMerge ==
    /\ TextIdle /\ RestIdle
    /\ HAS_PYPDF \in BOOLEAN
    /\ \E m \in 0..MaxTargetPages, tbroken \in BOOLEAN,
          k \in 0..MaxSourcePages, sstate \in {"absent", "broken", "pdf"},
          tpath \in TargetPaths :
         fs = [p \in Paths |->
                 IF p = tpath
                   THEN IF tbroken THEN BrokenFile ELSE PdfFile(TargetPages(m))
                 ELSE IF p = FormatPdf
                   THEN CASE sstate = "absent" -> NoFile
                          [] sstate = "broken" -> BrokenFile
                          [] OTHER -> PdfFile(SourcePages(k))
                 ELSE NoFile]
    /\ fs_before = fs
    /\ pc = "idle"
    /\ source_pdf_path = None /\ target_pdf_path = None /\ start_page = 0
    /\ source_reader = None /\ target_reader = None
    /\ writer = <<>> /\ merged_path = None
    /\ log = <<>> /\ result = None

\* lines 70-88: entry of merge_pdf_pages(src, tgt, s) and the two early returns
MergeEnter(src, tgt, s) ==
    /\ pc = "idle"
    /\ source_pdf_path' = src /\ target_pdf_path' = tgt /\ start_page' = s
    /\ fs_before' = fs
    /\ IF LibraryMissing
         THEN /\ log' = Append(log, "warn_no_pypdf")
              /\ result' = tgt /\ pc' = "done"
       ELSE IF ~os_path_exists(fs, src)
         THEN /\ log' = Append(log, "warn_no_format_pdf")
              /\ result' = tgt /\ pc' = "done"
       ELSE /\ pc' = "read_source"
            /\ UNCHANGED <<log, result>>
    /\ UNCHANGED <<HAS_PYPDF, fs, source_reader, target_reader, writer,
                   merged_path>>

\* a call of merge_pdf_pages on its own
MergeCall ==
    /\ \E src \in SourcePaths, tgt \in TargetPaths, s \in (-1)..MaxStart :
         MergeEnter(src, tgt, s)
    /\ UNCHANGED <<textVars, genVars, mainVars>>

\* line 92: source_reader = PdfReader(source_pdf_path)
ReadSource ==
    /\ pc = "read_source"
    /\ \E fail \in BOOLEAN :
         IF fail \/ ReaderRaises(fs, source_pdf_path)
           THEN pc' = "except" /\ UNCHANGED source_reader
           ELSE pc' = "read_target" /\ source_reader' = fs[source_pdf_path].pages
    /\ UNCHANGED <<textVars, genVars, mainVars>>
    /\ UNCHANGED <<HAS_PYPDF, fs, fs_before, source_pdf_path, target_pdf_path,
                   start_page, target_reader, writer, merged_path, log, result>>

\* line 95: target_reader = PdfReader(target_pdf_path)
ReadTarget ==
    /\ pc = "read_target"
    /\ \E fail \in BOOLEAN :
         IF fail \/ ReaderRaises(fs, target_pdf_path)
           THEN pc' = "except" /\ UNCHANGED target_reader
           ELSE pc' = "add_pages" /\ target_reader' = fs[target_pdf_path].pages
    /\ UNCHANGED <<textVars, genVars, mainVars>>
    /\ UNCHANGED <<HAS_PYPDF, fs, fs_before, source_pdf_path, target_pdf_path,
                   start_page, source_reader, writer, merged_path, log, result>>

\* lines 98-110: the writer takes the target's pages, then the source's
AddPages ==
    /\ pc = "add_pages"
    /\ \E fail \in BOOLEAN :
         IF SourceLongEnough(Len(source_reader), start_page)
           THEN IF fail \/ SourceSliceRaises(source_reader, start_page)
                  THEN pc' = "except" /\ UNCHANGED <<writer, log>>
                  ELSE /\ pc' = "open_merged"
                       /\ writer' = target_reader \o
                                      SourceSlice(source_reader, start_page)
                       /\ log' = Append(log, "merged_pages")
           ELSE IF fail
                  THEN pc' = "except" /\ UNCHANGED <<writer, log>>
                  ELSE /\ pc' = "open_merged"
                       /\ writer' = target_reader
                       /\ log' = Append(log, "format_pdf_too_short")
    /\ UNCHANGED <<textVars, genVars, mainVars>>
    /\ UNCHANGED <<HAS_PYPDF, fs, fs_before, source_pdf_path, target_pdf_path,
                   start_page, source_reader, target_reader, merged_path,
                   result>>

\* lines 113-114: merged_path is derived and opened for writing
OpenMerged ==
    /\ pc = "open_merged"
    /\ merged_path' = MergedPathOf(target_pdf_path)
    /\ \E fail \in BOOLEAN :
         IF fail
           THEN pc' = "except" /\ UNCHANGED fs
           ELSE pc' = "write_merged" /\ fs' = open_wb(fs, merged_path')
    /\ UNCHANGED <<textVars, genVars, mainVars>>
    /\ UNCHANGED <<HAS_PYPDF, fs_before, source_pdf_path, target_pdf_path,
                   start_page, source_reader, target_reader, writer, log,
                   result>>

\* line 115: writer.write(output_file); the file is closed on both exits
WriteMerged ==
    /\ pc = "write_merged"
    /\ \E fail \in BOOLEAN :
         IF fail
           THEN pc' = "except" /\ UNCHANGED fs
           ELSE /\ pc' = "replace"
                /\ fs' = [fs EXCEPT ![merged_path] = PdfFile(writer)]
    /\ UNCHANGED <<textVars, genVars, mainVars>>
    /\ UNCHANGED <<HAS_PYPDF, fs_before, source_pdf_path, target_pdf_path,
                   start_page, source_reader, target_reader, writer,
                   merged_path, log, result>>

\* lines 118-120: os.replace(merged_path, target_pdf_path); return
ReplaceTarget ==
    /\ pc = "replace"
    /\ \E fail \in BOOLEAN :
         IF fail
           THEN pc' = "except" /\ UNCHANGED <<fs, result>>
           ELSE /\ pc' = "done"
                /\ fs' = os_replace(fs, merged_path, target_pdf_path)
                /\ result' = target_pdf_path
    /\ UNCHANGED <<textVars, genVars, mainVars>>
    /\ UNCHANGED <<HAS_PYPDF, fs_before, source_pdf_path, target_pdf_path,
                   start_page, source_reader, target_reader, writer,
                   merged_path, log>>

\* lines 122-124: except Exception: print, return target_pdf_path
MergeExcept ==
    /\ pc = "except"
    /\ pc' = "done"
    /\ log' = Append(log, "error_merging")
    /\ result' = target_pdf_path
    /\ UNCHANGED <<textVars, genVars, mainVars>>
    /\ UNCHANGED <<HAS_PYPDF, fs, fs_before, source_pdf_path, target_pdf_path,
                   start_page, source_reader, target_reader, writer,
                   merged_path>>

NextMerge ==
    \/ MergeCall
    \/ ReadSource
    \/ ReadTarget
    \/ AddPages
    \/ OpenMerged
    \/ WriteMerged
    \/ ReplaceTarget
    \/ MergeExcept

SpecMerge == InitMerge /\ [][NextMerge]_vars

----------------------------------------------------------------------------
(* Properties of merge_pdf_pages *)

MergeDone == pc = "done"
\* the call went past both early returns
MergeAttempted == HAS_PYPDF /\ os_path_exists(fs_before, source_pdf_path)
\* no step of the merge raised
NoMergeError == \A i \in 1..Len(log) : log[i] # "error_merging"
Q == fs_before[target_pdf_path].pages
P == fs_before[source_pdf_path].pages

\* C1: with the library present, the source present and no error, for a
\* start index 0 <= s <= k the target file afterwards holds exactly the
\* target's pages q0..qm followed by the source's pages ps..pk, in order.
C1_MergeAppendsTail ==
    (MergeDone /\ MergeAttempted /\ NoMergeError
       /\ 0 <= start_page /\ start_page <= Len(P) - 1)
    => /\ fs[target_pdf_path] = PdfFile(Q \o SubSeq(P, start_page + 1, Len(P)))
       /\ result = target_pdf_path

C1_Witness ==
    /\ MergeDone /\ MergeAttempted /\ NoMergeError
    /\ start_page = 1 /\ Len(P) = 3 /\ Len(Q) = 2
    /\ fs[target_pdf_path].pages =
         <<<<"q", 0>>, <<"q", 1>>, <<"p", 1>>, <<"p", 2>>>>

\* C2: when the library is absent or the source path does not exist, the
\* call returns the target path and no file is created, written or replaced:
\* the target file (and every other file) is what it was before the call.
C2_EarlyReturnLeavesFiles ==
    (MergeDone /\ ~MergeAttempted)
    => /\ result = target_pdf_path
       /\ fs = fs_before

C2_Witness ==
    /\ MergeDone
    /\ ~HAS_PYPDF
    /\ os_path_exists(fs_before, source_pdf_path)
    /\ fs_before[target_pdf_path].valid
    /\ result = target_pdf_path

\* C3: when a step of the merge raises, the exception is not propagated, the
\* call returns the target path and the file at the target path still holds
\* its original content.
C3_ErrorLeavesTarget ==
    (MergeDone /\ ~NoMergeError)
    => /\ result = target_pdf_path
       /\ fs[target_pdf_path] = fs_before[target_pdf_path]

\* C4: when the start index is at or past the source's page count, no source
\* page reaches the target and the call returns the target path without
\* raising; when no step fails, the target holds exactly its original pages
\* q0..qm and the short source is reported in the log.
C4_ShortSourceAppendsNothing ==
    (MergeDone /\ MergeAttempted /\ fs_before[source_pdf_path].valid
       /\ start_page >= Len(P))
    => /\ result = target_pdf_path
       /\ \A i \in 1..Len(fs[target_pdf_path].pages) :
            fs[target_pdf_path].pages[i] \notin Range(P)
       /\ NoMergeError =>
            /\ fs[target_pdf_path] = PdfFile(Q)
            /\ log = <<"format_pdf_too_short">>

C4_Witness ==
    /\ MergeDone /\ MergeAttempted /\ NoMergeError
    /\ Len(P) = 2 /\ start_page = 2 /\ Len(Q) = 2
    /\ fs[target_pdf_path] = PdfFile(Q)
    /\ log = <<"format_pdf_too_short">>

----------------------------------------------------------------------------
(* Strings and their measured width *)

Whitespace == {" ", "\t", "\n"}
Alphabet == {"a", "b", " ", "\t"}
LineChars == {"a", "b", " "}

StringsUpTo(chars, n) == UNION {[1..k -> chars] : k \in 0..n}

\* the glyph widths of the font in use, in whole units
CharWidth(c) ==
    CASE c = "a" -> 1
      [] c = "b" -> 4
      [] c = " " -> 1
      [] OTHER   -> 2

\* canvas_obj.stringWidth(s, font_name, font_size)
\* (the sum of the glyph widths, added up half by half)
RECURSIVE stringWidth(_)
stringWidth(s) ==
    IF s = <<>> THEN 0
    ELSE IF Len(s) = 1 THEN CharWidth(s[1])
    ELSE LET h == Len(s) \div 2 IN
         stringWidth(SubSeq(s, 1, h)) + stringWidth(SubSeq(s, h + 1, Len(s)))

\* text.split(): the maximal runs of non-whitespace characters
RECURSIVE SplitWords(_, _, _)
SplitWords(s, word, words) ==
    IF s = <<>>
      THEN IF word # <<>> THEN Append(words, word) ELSE words
    ELSE IF Head(s) \in Whitespace
      THEN SplitWords(Tail(s), <<>>,
                      IF word # <<>> THEN Append(words, word) ELSE words)
    ELSE SplitWords(Tail(s), Append(word, Head(s)), words)

\* no word of s lies across a whitespace character, so a long s is split
\* piece by piece around the whitespace character nearest to its middle
RECURSIVE str_split(_)
str_split(s) ==
    LET ws == {i \in 1..Len(s) : s[i] \in Whitespace}
        h  == (Len(s) + 1) \div 2
        Dist(i) == IF i >= h THEN i - h ELSE h - i
    IN  IF ws = {} THEN SplitWords(s, <<>>, <<>>)
        ELSE LET m == CHOOSE i \in ws : \A j \in ws : Dist(i) <= Dist(j)
             IN  str_split(SubSeq(s, 1, m - 1))
                   \o str_split(SubSeq(s, m + 1, Len(s)))

Contains_nonempty(s, sep) ==
    /\ sep # <<>>
    /\ \E i \in 0..(Len(s) - Len(sep)) : SubSeq(s, i + 1, i + Len(sep)) = sep
\* "sep in s"
Contains(s, sep) ==
    \E i \in 0..(Len(s) - Len(sep)) : SubSeq(s, i + 1, i + Len(sep)) = sep

\* the index (from 0) of the leftmost occurrence of sep in s
FirstIndex(s, sep) ==
    CHOOSE i \in 0..(Len(s) - Len(sep)) :
        /\ SubSeq(s, i + 1, i + Len(sep)) = sep
        /\ \A j \in 0..(i - 1) : SubSeq(s, j + 1, j + Len(sep)) # sep

\* s.split(sep) for a non-empty sep: cut at each occurrence, left to right
RECURSIVE str_split_sep(_, _)
str_split_sep(s, sep) ==
    IF ~Contains(s, sep) THEN <<s>>
    ELSE LET i == FirstIndex(s, sep) IN
         <<SubSeq(s, 1, i)>> \o
           str_split_sep(SubSeq(s, i + Len(sep) + 1, Len(s)), sep)

----------------------------------------------------------------------------
(* wrap_text *)

Fits_loose(line, width) == stringWidth(line) <= width + 1
Fits_strict(line, width) == stringWidth(line) < width
\* "if width <= max_width"
Fits(line, width) == stringWidth(line) <= width

\* test_line = current_line + (" " if current_line else "") + word
TestLine(current_line, word) ==
    current_line \o (IF current_line # <<>> THEN <<" ">> ELSE <<>>) \o word

CloseLine_drop(ls, current_line) == ls
\* "if current_line: lines.append(current_line)" inside the loop
CloseLine(ls, current_line) ==
    IF current_line # <<>> THEN Append(ls, current_line) ELSE ls

FlushLast_drop(ls, current_line) == ls
\* "if current_line: lines.append(current_line)" after the loop
FlushLast(ls, current_line) ==
    IF current_line # <<>> THEN Append(ls, current_line) ELSE ls

\* the "for word in words" loop
RECURSIVE WrapLoop(_, _, _, _)
WrapLoop(words, ls, current_line, width) ==
    IF words = <<>> THEN [lines |-> ls, current_line |-> current_line]
    ELSE LET word == Head(words)
             test_line == TestLine(current_line, word)
         IN  IF Fits(test_line, width)
               THEN WrapLoop(Tail(words), ls, test_line, width)
               ELSE WrapLoop(Tail(words), CloseLine(ls, current_line), word,
                             width)

wrap_text(t, width) ==
    LET r == WrapLoop(str_split(t), <<>>, <<>>, width)
    IN  FlushLast(r.lines, r.current_line)

\* the merge variables while only the text helpers run
MergeIdle ==
    /\ HAS_PYPDF = TRUE
    /\ fs = [p \in Paths |-> NoFile] /\ fs_before = fs
    /\ pc = "idle"
    /\ source_pdf_path = None /\ target_pdf_path = None /\ start_page = 0
    /\ source_reader = None /\ target_reader = None
    /\ writer = <<>> /\ merged_path = None
    /\ log = <<>> /\ result = None

InitWrap ==
    /\ MergeIdle /\ RestIdle
    /\ text \in StringsUpTo(Alphabet, MaxTextLen)
    /\ max_width \in (-1)..MaxWidth
    /\ lines = None /\ wrap_pc = "idle"
    /\ url = <<>> /\ x = 0 /\ y = 0 /\ canvas_obj = NewCanvas(BLACK)
    /\ current_x = None /\ draw_pc = "idle"

\* a call wrap_text(text, max_width, font_name, font_size, canvas_obj)
WrapCall ==
    /\ wrap_pc = "idle"
    /\ lines' = wrap_text(text, max_width)
    /\ wrap_pc' = "done"
    /\ UNCHANGED <<text, max_width, url, x, y, canvas_obj, current_x, draw_pc>>
    /\ UNCHANGED <<mergeVars, genVars, mainVars>>

NextWrap == WrapCall

SpecWrap == InitWrap /\ [][NextWrap]_vars

----------------------------------------------------------------------------
(* Properties of wrap_text *)

WrapDone == wrap_pc = "done"
IsWhitespaceOnly(s) == \A i \in 1..Len(s) : s[i] \in Whitespace
IsSingleWord(line) == \A i \in 1..Len(line) : line[i] \notin Whitespace

\* C5: every returned line measures at most max_width, except a line that is
\* one single word whose own width exceeds max_width.
C5_LinesFit ==
    WrapDone =>
      \A i \in 1..Len(lines) :
        \/ stringWidth(lines[i]) <= max_width
        \/ IsSingleWord(lines[i]) /\ stringWidth(lines[i]) > max_width

\* an overlong word alone on its line next to a line of two words that fits
C5_Witness ==
    /\ WrapDone
    /\ \E i \in 1..Len(lines) :
         IsSingleWord(lines[i]) /\ stringWidth(lines[i]) > max_width
    /\ \E i \in 1..Len(lines) :
         ~IsSingleWord(lines[i]) /\ stringWidth(lines[i]) <= max_width

\* C6: the lines, each split on single spaces, give back in order exactly the
\* whitespace-separated words of the input, whole, none lost or repeated.
C6_WordsPreserved ==
    WrapDone =>
      Flatten([i \in 1..Len(lines) |-> str_split_sep(lines[i], <<" ">>)])
        = str_split(text)

C6_Witness ==
    /\ WrapDone
    /\ Len(lines) = 2
    /\ Len(str_split(text)) = 3
    /\ \E i \in 1..Len(text) : text[i] = "\t"

\* C7 as stated: a non-empty input gives a non-empty list of lines, and the
\* list is empty only for the empty input.
C7_NonEmptyUnlessEmptyInput ==
    WrapDone => (lines = <<>> <=> text = <<>>)

\* C7 amended: the list of lines is empty exactly when the input has no word,
\* that is when it is empty or made only of whitespace; otherwise non-empty.
C7_EmptyIffNoWord ==
    WrapDone => (lines = <<>> <=> IsWhitespaceOnly(text))

C7_Witness ==
    /\ WrapDone
    /\ text = <<" ", "\t">>
    /\ lines = <<>>

----------------------------------------------------------------------------
(* draw_underlined_text and draw_text_with_urls *)

\* canvas_obj.drawString(px, py, s): drawn in the current fill colour
drawString(c, px, py, s) ==
    [c EXCEPT !.ops = Append(@, [op |-> "drawString", x |-> px, y |-> py,
                                 text |-> s, color |-> c.fill])]

\* canvas_obj.line(x1, y1, x2, y2): drawn in the current stroke colour
line(c, x1, y1, x2, y2) ==
    [c EXCEPT !.ops = Append(@, [op |-> "line", x |-> x1, y |-> y1,
                                 x2 |-> x2, y2 |-> y2, color |-> c.stroke,
                                 lineWidth |-> c.lineWidth])]

setFont(c, font_name)  == [c EXCEPT !.font = font_name]
setFillColorRGB(c, rgb)   == [c EXCEPT !.fill = rgb]
setStrokeColorRGB(c, rgb) == [c EXCEPT !.stroke = rgb]
setLineWidth(c, w)     == [c EXCEPT !.lineWidth = w]

UnderlineY_baseline(py) == py
\* underline_y = y - 2
UnderlineY(py) == py - 2

\* draw_underlined_text(canvas_obj, s, px, py, font_name, font_size, color_rgb)
draw_underlined_text(c, s, px, py, color_rgb) ==
    LET c1 == setFillColorRGB(setFont(c, "font_normal"), color_rgb)
        c2 == drawString(c1, px, py, s)
        text_width == stringWidth(s)
        underline_y == UnderlineY(py)
        c3 == setLineWidth(setStrokeColorRGB(c2, color_rgb), "0.5")
        c4 == line(c3, px, underline_y, px + text_width, underline_y)
    IN  setStrokeColorRGB(c4, BLACK)

DrawPlain_keepfill(c, s, px, py) == drawString(c, px, py, s)
\* setFillColorRGB(0, 0, 0); drawString(current_x, y, part)
DrawPlain(c, s, px, py) == drawString(setFillColorRGB(c, BLACK), px, py, s)

Advance_stay(cx, s) == cx
\* current_x += canvas_obj.stringWidth(s, font_name, font_size)
Advance(cx, s) == cx + stringWidth(s)

\* "for i, part in enumerate(parts)", from part number i (from 1) on
RECURSIVE DrawParts(_, _, _, _, _, _)
DrawParts(c, parts, i, cx, py, u) ==
    IF i > Len(parts) THEN [canvas |-> c, x |-> cx]
    ELSE LET part == parts[i]
             c1  == IF part # <<>> THEN DrawPlain(c, part, cx, py) ELSE c
             cx1 == IF part # <<>> THEN Advance(cx, part) ELSE cx
             c2  == IF i < Len(parts)
                      THEN draw_underlined_text(c1, u, cx1, py, BLUE) ELSE c1
             cx2 == IF i < Len(parts) THEN Advance(cx1, u) ELSE cx1
         IN  DrawParts(c2, parts, i + 1, cx2, py, u)

\* draw_text_with_urls(canvas_obj, t, px, py, font_name, font_size, u, max_width);
\* text.split(url) raises ValueError for an empty url
draw_text_with_urls(c, t, px, py, u) ==
    LET c0 == setFont(c, "font_normal") IN
    IF Contains(t, u)
      THEN IF u = <<>>
             THEN [raised |-> TRUE, canvas |-> c0, x |-> None]
             ELSE LET r == DrawParts(c0, str_split_sep(t, u), 1, px, py, u)
                  IN  [raised |-> FALSE, canvas |-> r.canvas, x |-> r.x]
      ELSE [raised |-> FALSE,
            canvas |-> DrawPlain(c0, t, px, py),
            x |-> Advance(px, t)]

InitDraw ==
    /\ MergeIdle /\ RestIdle
    /\ text \in StringsUpTo(LineChars, MaxLineLen)
    /\ url \in StringsUpTo(LineChars, MaxUrlLen)
    /\ max_width = MaxWidth
    /\ x \in {0, 3} /\ y = 10
    /\ canvas_obj \in {NewCanvas(BLACK), NewCanvas(GREY)}
    /\ lines = None /\ wrap_pc = "idle"
    /\ current_x = None /\ draw_pc = "idle"

\* a call draw_text_with_urls(canvas_obj, text, x, y, font, size, url, max_width)
DrawCall ==
    /\ draw_pc = "idle"
    /\ LET r == draw_text_with_urls(canvas_obj, text, x, y, url) IN
         /\ canvas_obj' = r.canvas
         /\ current_x' = r.x
         /\ draw_pc' = IF r.raised THEN "raised" ELSE "done"
    /\ UNCHANGED <<text, max_width, lines, wrap_pc, url, x, y>>
    /\ UNCHANGED <<mergeVars, genVars, mainVars>>

NextDraw == DrawCall

SpecDraw == InitDraw /\ [][NextDraw]_vars

----------------------------------------------------------------------------
(* Properties of draw_text_with_urls *)

DrawDone == draw_pc = "done"
Ops == canvas_obj.ops
IsText(o) == o.op = "drawString"
IsLine(o) == o.op = "line"
\* the text draws, in the order they were made
TextDraws == SelectSeq(Ops, IsText)

RECURSIVE SumWidths(_, _)
SumWidths(ds, n) ==
    IF n = 0 THEN 0 ELSE SumWidths(ds, n - 1) + stringWidth(ds[n].text)

\* the number of occurrences of u in s, counted left to right without overlap
RECURSIVE Occurrences(_, _, _)
Occurrences(s, u, from) ==
    IF from + Len(u) - 1 > Len(s) THEN 0
    ELSE IF SubSeq(s, from, from + Len(u) - 1) = u
      THEN 1 + Occurrences(s, u, from + Len(u))
    ELSE Occurrences(s, u, from + 1)

\* C8: for a non-empty url, the returned x minus the starting x is the sum
\* of the widths of the segments drawn, each segment is drawn at the starting
\* x plus the widths of the segments before it, and the segments are the
\* pieces of the text from left to right.
C8_AdvanceIsSumOfWidths ==
    (DrawDone /\ url # <<>>) =>
      /\ current_x - x = SumWidths(TextDraws, Len(TextDraws))
      /\ \A i \in 1..Len(TextDraws) :
           /\ TextDraws[i].x = x + SumWidths(TextDraws, i - 1)
           /\ TextDraws[i].y = y
      /\ Flatten([i \in 1..Len(TextDraws) |-> TextDraws[i].text]) = text

\* two occurrences of the url with plain text between them
C8_Witness ==
    /\ DrawDone /\ url # <<>>
    /\ Occurrences(text, url, 1) = 2
    /\ Len(TextDraws) = 3 /\ TextDraws[2].color = BLACK
    /\ current_x > x + stringWidth(url) + stringWidth(url)

\* C9: when url does not occur in text, there is exactly one draw: the whole
\* text at (x, y) in black, with no underline, and the returned x is x plus
\* the width of the text.
C9_NoUrlIsPlainDraw ==
    (DrawDone /\ ~Contains(text, url)) =>
      /\ Ops = <<[op |-> "drawString", x |-> x, y |-> y, text |-> text,
                  color |-> BLACK]>>
      /\ current_x = x + stringWidth(text)

C9_Witness ==
    /\ DrawDone
    /\ ~Contains(text, url)
    /\ Len(text) >= 3
    /\ Len(Ops) = 1
    /\ current_x = x + stringWidth(text)

\* C10: with n occurrences of a non-empty url there are exactly n URL draws,
\* each blue, each followed by its one underline, which starts at the x of
\* that draw, lies at y - 2 and is as long as the url is wide; every other
\* draw is black and has no underline.
C10_UrlDrawsUnderlined ==
    (DrawDone /\ url # <<>>) =>
      /\ Cardinality({i \in 1..Len(Ops) : IsText(Ops[i]) /\ Ops[i].color = BLUE})
           = Occurrences(text, url, 1)
      /\ Cardinality({i \in 1..Len(Ops) : IsLine(Ops[i])})
           = Occurrences(text, url, 1)
      /\ \A i \in 1..Len(Ops) :
           /\ (IsText(Ops[i]) /\ Ops[i].color = BLUE) =>
                /\ Ops[i].text = url
                /\ i < Len(Ops)
                /\ Ops[i + 1] = [op |-> "line", x |-> Ops[i].x, y |-> y - 2,
                                 x2 |-> Ops[i].x + stringWidth(url),
                                 y2 |-> y - 2, color |-> BLUE,
                                 lineWidth |-> "0.5"]
           /\ (IsText(Ops[i]) /\ Ops[i].color # BLUE) =>
                /\ Ops[i].color = BLACK
                /\ i < Len(Ops) => ~IsLine(Ops[i + 1])
           /\ IsLine(Ops[i]) =>
                i > 1 /\ IsText(Ops[i - 1]) /\ Ops[i - 1].color = BLUE

C10_Witness ==
    /\ DrawDone /\ url # <<>>
    /\ Occurrences(text, url, 1) = 2
    /\ Cardinality({i \in 1..Len(Ops) : IsLine(Ops[i])}) = 2
    /\ \E i \in 1..Len(Ops) : IsText(Ops[i]) /\ Ops[i].color = BLACK
    /\ canvas_obj.fill = BLACK

----------------------------------------------------------------------------
(* The page and the Document Request of the template generators.           *)
(* Vertical positions are in tenths of a point; horizontal lengths are in  *)
(* the units of stringWidth (one unit is about ten points). A text is a    *)
(* sequence of tokens: the words of the source text and the single spaces  *)
(* between them.                                                           *)

\* A4, page_width and page_height
page_width  == 60
page_height == 8419
margin == 7
right_margin == 7
line_spacing == 140
\* "margin + 15"
indent == 2

\* v * k for a factor k given in tenths: line_spacing * 9.5 is Times(line_spacing, 95)
Times(v, k) == (v * k) \div 10

\* header_height = page_height * 0.15
header_height == (page_height * 15) \div 100
\* footer_area_height = page_height * 0.05
footer_area_height == (page_height * 5) \div 100
StartY_noband == page_height - 300
\* y_pos = page_height - header_height - 30
StartY == page_height - header_height - 300
\* min_y = footer_area_height + 100 (page 1), footer_area_height + 20 (page 2)
min_y_pg1 == footer_area_height + 1000
min_y_pg2 == footer_area_height + 200

\* "key in d"
HasKey(d, k) == k \in DOMAIN d
\* d.get(k, default)
dict_get(d, k, default) == IF HasKey(d, k) THEN d[k] ELSE default

AfterGet_setdefault(d, k, default) ==
    IF HasKey(d, k) THEN d
    ELSE [j \in DOMAIN d \cup {k} |-> IF j = k THEN default ELSE d[j]]
\* the dict d after d.get(k, default): get does not store the default
AfterGet(d, k, default) == d

EmptyDict == [k \in {} |-> <<>>]

\* s.strip()
RECURSIVE lstrip(_)
lstrip(s) == IF s # <<>> /\ Head(s) \in Whitespace THEN lstrip(Tail(s)) ELSE s
RECURSIVE rstrip(_)
rstrip(s) ==
    IF s # <<>> /\ s[Len(s)] \in Whitespace
      THEN rstrip(SubSeq(s, 1, Len(s) - 1)) ELSE s
strip(s) == rstrip(lstrip(s))

\* canvas_obj.drawImage(image, 0, 0, ...)
drawImage(c, image) ==
    [c EXCEPT !.ops = Append(@, [op |-> "drawImage", image |-> image])]

\* every entry of ops that has no slot yet belongs to the field named slot
Tag(c, slot) ==
    [c EXCEPT !.slots = @ \o [i \in 1..(Len(c.ops) - Len(@)) |-> slot]]

showPage_keep(c) == c
\* canvas_obj.showPage(): the open page is closed, a new one starts with the
\* initial graphics state
showPage(c) ==
    [NewCanvas(BLACK) EXCEPT
       !.pages = Append(c.pages, [ops |-> c.ops, slots |-> Tag(c, "").slots])]

\* the generator's position: the canvas, the cursor y_pos, whether it raised
GenState(c, ypos) == [c |-> c, y |-> ypos, raised |-> FALSE]

\* canvas_obj.drawString(px, y_pos, s) for the field named slot
Put(st, slot, px, s) ==
    [st EXCEPT !.c = Tag(drawString(st.c, px, st.y, s), slot)]
Down_up(st, d) == [st EXCEPT !.y = @ + d]
\* y_pos -= d
Down(st, d) == [st EXCEPT !.y = @ - d]
Font(st, font_name) == [st EXCEPT !.c = setFont(@, font_name)]
Fill(st, rgb) == [st EXCEPT !.c = setFillColorRGB(@, rgb)]

\* "for line in wrapped: drawString(px, y_pos, line); y_pos -= line_spacing"
RECURSIVE PutLines(_, _, _, _)
PutLines(st, slot, px, ls) ==
    IF ls = <<>> THEN st
    ELSE PutLines(Down(Put(st, slot, px, Head(ls)), line_spacing), slot, px,
                  Tail(ls))

\* draw_text_with_urls(canvas_obj, ln, margin, y_pos, ..., website, ...)
PutUrlLine(st, slot, ln, website) ==
    LET r == draw_text_with_urls(st.c, ln, margin, st.y, website) IN
    [st EXCEPT !.c = Tag(r.canvas, slot), !.raised = r.raised]

\* "for line in wrapped_text: draw_text_with_urls(...); y_pos -= line_spacing"
RECURSIVE PutUrlLines(_, _, _, _)
PutUrlLines(st, slot, ls, website) ==
    IF ls = <<>> \/ st.raised THEN st
    ELSE LET s1 == PutUrlLine(st, slot, Head(ls), website) IN
         IF s1.raised THEN s1
         ELSE PutUrlLines(Down(s1, line_spacing), slot, Tail(ls), website)

AboveFooter_always(ypos, min_y) == TRUE
\* "if y_pos >= min_y"
AboveFooter(ypos, min_y) == ypos >= min_y

\* the guarded loop of page 1: draw while y_pos >= min_y, else break
RECURSIVE PutUrlLinesGuarded(_, _, _, _, _)
PutUrlLinesGuarded(st, slot, ls, website, min_y) ==
    IF ls = <<>> \/ st.raised THEN st
    ELSE IF AboveFooter(st.y, min_y)
      THEN LET s1 == PutUrlLine(st, slot, Head(ls), website) IN
           IF s1.raised THEN s1
           ELSE PutUrlLinesGuarded(Down(s1, line_spacing), slot, Tail(ls),
                                   website, min_y)
    ELSE st

\* the guarded loop of page 2: draw while y_pos >= min_y, else break
RECURSIVE PutLinesGuarded(_, _, _, _, _)
PutLinesGuarded(st, slot, px, ls, min_y) ==
    IF ls = <<>> THEN st
    ELSE IF AboveFooter(st.y, min_y)
      THEN PutLinesGuarded(Down(Put(st, slot, px, Head(ls)), line_spacing),
                           slot, px, Tail(ls), min_y)
    ELSE st

Background_partial(c, image, state) ==
    IF state # "missing" THEN Tag(drawImage(c, image), "background") ELSE c
\* "if os.path.exists(bg_image): try: drawImage(...) except Exception: print"
Background(c, image, state) ==
    IF state = "present" THEN Tag(drawImage(c, image), "background") ELSE c
BackgroundLog(lg, state) ==
    IF state = "broken" THEN Append(lg, "warn_background_image") ELSE lg

----------------------------------------------------------------------------
(* generate_welcome_letter (templates/welcome_letter/generator.py)         *)

N_A_blank == <<"">>
\* the literal fallback "N/A"
N_A == <<"N/A">>
DefaultWebsite == <<"www.aramcoenergy.co.uk">>
DefaultBusinessHours == <<"8:30am", " ", "to", " ", "5:30pm,", " ", "Monday", " ", "to", " ", "Friday">>

\* the values the generator reads from the Document Request d
customer_of(d) == dict_get(d, "customer", EmptyDict)
account_of(d)  == dict_get(d, "account", EmptyDict)
pricing_of(d)  == dict_get(d, "pricing", EmptyDict)
website_of(d)  == dict_get(d, "website", DefaultWebsite)
business_hours_of(d) == dict_get(d, "business_hours", DefaultBusinessHours)
date_display_of(d) == dict_get(d, "date_display", dict_get(d, "date", N_A))
customer_name_of(d) == dict_get(customer_of(d), "name", <<"Name">>)
phone_of(d) == dict_get(customer_of(d), "phone", <<"TBC">>)
contract_start_of(d) ==
    dict_get(account_of(d), "contract_start_date_display",
             dict_get(account_of(d), "contract_start_date", N_A))

welcome_text(website) ==
    <<"To", " ", "get", " ", "you", " ", "off", " ", "to", " ", "the", " ", "best", " ", "possible", " ", "start,", " ", "please", " ", "register", " ", "now", " ", "for", " ", "your", " ", "Online", " ", "Account", " ", "by", " ", "visiting", " ", "our", " ", "website", " ">>
    \o website \o
    <<" ", "and", " ", "entering", " ", "the", " ", "Customer", " ", "Number", " ", "listed", " ", "above.", " ", "When", " ", "you", " ", "first", " ", "log", " ", "in", " ", "you", " ", "will", " ", "be", " ", "asked", " ", "to", " ", "provide", " ", "key", " ", "information", " ", "that", " ", "will", " ", "help", " ", "us", " ", "ensure", " ", "you", " ", "are", " ", "only", " ", "billed", " ", "for", " ", "energy", " ", "you", " ", "have", " ", "used.">>

benefits ==
    << <<"Download", " ", "and", " ", "view", " ", "your", " ", "invoices">>,
       <<"View", " ", "and", " ", "manage", " ", "your", " ", "energy", " ", "usage">>,
       <<"Input", " ", "meter", " ", "readings", " ", "to", " ", "help", " ", "ensure", " ", "your", " ", "invoice", " ", "is", " ", "accurate">>,
       <<"Make", " ", "payments", " ", "online">>,
       <<"Access", " ", "copies", " ", "of", " ", "forms", " ", "and", " ", "other", " ", "information">> >>

contact_text(website, phone, business_hours) ==
    <<"If", " ", "you", " ", "have", " ", "any", " ", "questions", " ", "at", " ", "this", " ", "point,", " ", "please", " ", "visit", " ", "our", " ", "website", " ">>
    \o website \o <<" ", "and", " ", "chat", " ", "to", " ", "us", " ", "live", " ", "or", " ", "call", " ", "us", " ", "on", " ">>
    \o phone \o <<".", " ", "We're", " ", "here", " ", "to", " ", "help", " ", "from", " ">>
    \o business_hours \o <<".">>

\* "for benefit in benefits: drawString(margin + 15, y_pos, f'(bullet) {benefit}')"
RECURSIVE PutBenefits(_, _)
PutBenefits(st, bs) ==
    IF bs = <<>> THEN st
    ELSE PutBenefits(
           Down(Put(st, "benefit", margin + indent,
                    <<"(bullet)", " ">> \o Head(bs)), line_spacing),
           Tail(bs))

\* page 1 up to the welcome paragraph (lines 46-102)
WelcomePage1Head(c, d, bg1) ==
    LET s0  == GenState(Background(c, "bg-welcome-pg1", bg1), StartY)
        s1  == Put(Font(Fill(s0, BLACK), "font_normal"), "confidential", margin,
                   <<"Private", " ", "and", " ", "Confidential">>)
        s2  == Down(Put(s1, "date",
                        page_width - right_margin
                          - stringWidth(date_display_of(d)),
                        date_display_of(d)),
                    Times(line_spacing, 95))
        s3  == Put(Fill(Font(s2, "font_bold"), BLACK),
                   "account_number_label", margin, <<"Account", " ", "Number:", " ">>)
        s4  == Down(Put(Fill(s3, BLUE), "account_number",
                        margin + stringWidth(<<"Account", " ", "Number:", " ">>),
                        dict_get(customer_of(d), "account_number", N_A)),
                    line_spacing)
        s5  == Put(Fill(s4, BLACK), "customer_number_label", margin,
                   <<"Customer", " ", "Number:", " ">>)
        s6  == Down(Put(Fill(s5, BLUE), "customer_number",
                        margin + stringWidth(<<"Customer", " ", "Number:", " ">>),
                        dict_get(customer_of(d), "customer_number", N_A)),
                    line_spacing * 2)
        s7  == Down(Put(Fill(Font(s6, "font_normal"), BLACK), "greeting", margin,
                        <<"Hi", " ">> \o customer_name_of(d) \o <<",">>),
                    Times(line_spacing, 15))
        s8  == Down(Put(Fill(Font(s7, "font_bold"), BLACK), "welcome_title",
                        margin, <<"Welcome", " ", "to", " ", "Aramco", " ", "Energy">>),
                    line_spacing * 2)
    IN  s8

\* page 1 from the welcome paragraph to the end of the page (lines 104-175)
WelcomePage1Body(s8, d) ==
    LET website == website_of(d)
        width == page_width - margin - right_margin
        s9  == PutUrlLines(Fill(Font(s8, "font_normal"), BLACK), "welcome_paragraph",
                           wrap_text(welcome_text(website), width), website)
        s10 == Down(Put(Down(s9, Times(line_spacing, 5)), "look_forward", margin,
                        <<"Once", " ", "again", " ", "we", " ", "look", " ", "forward", " ", "to", " ", "supplying", " ", "your", " ", "business", " ", "energy.">>),
                    line_spacing * 2)
        s11 == Down(Put(Fill(Font(s10, "font_bold"), BLACK), "benefits_title",
                        margin,
                        <<"Other", " ", "key", " ", "benefits", " ", "of", " ", "your", " ", "Online", " ", "Account", " ", "include:">>),
                    Times(line_spacing, 15))
        s12 == Down(PutBenefits(Fill(Font(s11, "font_normal"), BLACK), benefits),
                    Times(line_spacing, 5))
        s13 == Down(Put(s12, "attached", margin,
                        <<"Attached", " ", "you", " ", "will", " ", "find", " ", "your", " ", "important", " ", "contract", " ", "information,", " ", "terms", " ", "and", " ", "conditions", " ", "and", " ", "privacy", " ", "policy.">>),
                    Times(line_spacing, 12))
        s14 == PutUrlLinesGuarded(
                 s13, "contact_paragraph",
                 wrap_text(contact_text(website, phone_of(d),
                                        business_hours_of(d)), width),
                 website, min_y_pg1)
    IN  IF s9.raised THEN s9
        ELSE IF s14.raised THEN s14
        ELSE [s14 EXCEPT !.c = showPage(@)]

section_text ==
    <<"Additional", " ", "information", " ", "to", " ", "accompany", " ", "Aramco's", " ", "Standard", " ", "Terms", " ", "&", " ", "Conditions", " ", "to", " ", "Businesses", " ", "and", " ", "Micro", " ", "Businesses">>
note_text ==
    <<"Any", " ", "terms", " ", "highlighted", " ", "in", " ", "bold", " ", "below", " ", "are", " ", "defined", " ", "in", " ", "section", " ", "O", " ", "(definitions)", " ", "of", " ", "the", " ", "Terms", " ", "and", " ", "Conditions", " ", "document", " ", "that", " ", "accompanies", " ", "this", " ", "statement.">>
clarification ==
    <<"For", " ", "clarification,", " ", "if", " ", "no", " ", "charges", " ", "are", " ", "quoted", " ", "for", " ", "Rates", " ", "2", " ", "&", " ", "3", " ", "then", " ", "Rate", " ", "1", " ", "will", " ", "apply", " ", "at", " ", "all", " ", "times", " ", "(24", " ", "hours", " ", "a", " ", "day,", " ", "7", " ", "days", " ", "a", " ", "week)">>
price_change ==
    <<"If", " ", "unit", " ", "rates", " ", "are", " ", "subject", " ", "to", " ", "change,", " ", "prices", " ", "will", " ", "vary", " ", "when", " ", "wholesale", " ", "and/or", " ", "third", " ", "party", " ", "costs", " ", "have", " ", "changed", " ", "significantly">>

\* a section title: bold, underlined with a black line of width 1
PutSection(st, slot, s) ==
    LET s1 == Put(Font(st, "font_bold"), slot, margin, s)
        underline_y == UnderlineY(st.y)
        c2 == setLineWidth(setStrokeColorRGB(s1.c, BLACK), "1")
        c3 == line(c2, margin, underline_y, margin + stringWidth(s),
                   underline_y)
    IN  Down([s1 EXCEPT !.c = Tag(c3, slot)], line_spacing * 2)

\* "for addr_line in address_lines: drawString(margin + 15, y_pos, addr_line.strip())"
RECURSIVE PutAddress(_, _)
PutAddress(st, address_lines) ==
    IF address_lines = <<>> THEN st
    ELSE PutAddress(
           Down(Put(st, "address_line", margin + indent,
                    strip(Head(address_lines))), line_spacing),
           Tail(address_lines))

\* page 2 up to the contract details (lines 179-248)
WelcomePage2Head(c, d, bg2) ==
    LET customer == customer_of(d)
        account  == account_of(d)
        width == page_width - margin - right_margin
        s0  == GenState(Background(c, "bg-welcome-pg2", bg2), StartY)
        s1  == Down(PutLines(Font(Fill(s0, BLACK), "font_normal"), "section_text",
                             margin, wrap_text(section_text, width)),
                    Times(line_spacing, 3))
        s2  == Down(Put(s1, "renewal_terms", margin,
                        <<"(Incorporating", " ", "the", " ", "requisite", " ", "'Statement", " ", "of", " ", "Renewal", " ", "Terms')">>),
                    Times(line_spacing, 15))
        s3  == Down(PutLines(s2, "note_text", margin, wrap_text(note_text, width)),
                    line_spacing * 2)
        s4  == PutSection(s3, "section1", <<"1.", " ", "Customer", " ", "&", " ", "site">>)
        customer_full_name ==
            strip(dict_get(customer, "title", <<>>) \o <<" ">>
                    \o customer_name_of(d))
        s5  == Down(Put(Font(s4, "font_normal"), "customer_name", margin,
                        <<"Customer", " ", "name:", " ">> \o customer_full_name),
                    Times(line_spacing, 25))
        s6  == Down(Put(s5, "address_label", margin, <<"Site(s)", " ", "address(es):">>),
                    line_spacing)
        service_address == dict_get(customer, "service_address", N_A)
        s7  == Down(PutAddress(s6, str_split_sep(service_address, <<"\n">>)),
                    Times(line_spacing, 15))
        s8  == Down(Put(s7, "mpan", margin,
                        <<"MPAN", " ", "(electricity):", " ">> \o dict_get(account, "mpan", N_A)),
                    Times(line_spacing, 25))
        s9  == Down(Put(s8, "profile_class", margin,
                        <<"Profile", " ", "Class:", " ">>
                          \o dict_get(account, "profile_class", N_A)),
                    Times(line_spacing, 25))
    IN  s9

\* page 2, contract details (lines 250-281)
WelcomePage2Contract(s9, d) ==
    LET account == account_of(d)
        s10 == PutSection(s9, "section2", <<"2.", " ", "Contract", " ", "details">>)
        s11 == Down(Put(Font(s10, "font_normal"), "contract_type", margin,
                        <<"Contract", " ", "form", " ", "(type):", " ">>
                          \o dict_get(account, "contract_type", N_A)),
                    Times(line_spacing, 25))
        s12 == Down(Put(s11, "product_type", margin,
                        <<"Product", " ", "Type:", " ">>
                          \o dict_get(account, "product_type", N_A)),
                    Times(line_spacing, 25))
        s13 == Down(Put(s12, "contract_start", margin,
                        <<"Contract", " ", "start", " ", "date:", " ">> \o contract_start_of(d)
                          \o <<" ", "(subject", " ", "to", " ", "successful", " ", "application)">>),
                    Times(line_spacing, 25))
        s14 == Down(Put(s13, "contract_end", margin,
                        <<"Contract", " ", "end", " ", "date:", " ">>
                          \o dict_get(account, "contract_end_date", N_A)
                          \o <<" ", "(to", " ", "be", " ", "confirmed", " ", "in", " ", "writing", " ", "when", " ", "finalised)">>),
                    Times(line_spacing, 25))
    IN  s14

\* page 2, contract prices (lines 283-353)
WelcomePage2Prices(s14, d) ==
    LET account == account_of(d)
        pricing == pricing_of(d)
        width == page_width - margin - right_margin
        s15 == PutSection(s14, "section3", <<"3.", " ", "Contract", " ", "prices">>)
        s16 == Down(Put(Font(s15, "font_normal"), "price_header", margin,
                        <<"Contract", " ", "price:", " ", "Initial", " ", "Period", " ", "(">>
                          \o dict_get(account, "contract_start_date", N_A)
                          \o <<")", " ", "until", " ", "end", " ", "of", " ", "contract">>),
                    Times(line_spacing, 25))
        pricing_line ==
            dict_get(pricing, "standing_charge", <<"GBP0.78">>) \o <<" ">>
              \o dict_get(pricing, "standing_charge_unit", <<"per", " ", "day">>)
              \o dict_get(pricing, "rate_1", <<"30.40">>) \o <<" ">>
              \o dict_get(pricing, "rate_1_unit", <<"p", " ", "/", " ", "kWh">>)
              \o dict_get(pricing, "rate_2", <<"21.10">>) \o <<" ">>
              \o dict_get(pricing, "rate_2_unit", <<"p", " ", "/", " ", "kWh">>)
        s17 == Down(Put(s16, "pricing_line", margin, pricing_line), line_spacing)
        labels_line ==
            <<"(Standing", " ", "Charge)", "(">>
              \o dict_get(pricing, "rate_1_label", <<"Rate", " ", "1">>) \o <<")", "(">>
              \o dict_get(pricing, "rate_2_label", <<"Rate", " ", "2">>) \o <<")">>
        s18 == Down(Put(s17, "labels_line", margin, labels_line),
                    line_spacing * 2)
        rates_line ==
            <<"Rate1", " ", "-", " ">>
              \o dict_get(pricing, "rate_1_description", <<"Day", " ", "charge">>)
              \o <<",", " ", "Rate", " ", "2", " ", "-", " ">>
              \o dict_get(pricing, "rate_2_description", <<"Night", " ", "Charge">>)
              \o <<",", " ", "Rate", " ", "3", " ", "-", " ">>
              \o dict_get(pricing, "rate_3_description",
                          <<"Evening/Weekend", " ", "charge">>)
              \o <<".">>
        s19 == Down(Put(s18, "rates_line", margin, rates_line),
                    Times(line_spacing, 12))
        s20 == Down(PutLines(s19, "clarification", margin,
                             wrap_text(clarification, width)),
                    Times(line_spacing, 5))
    IN  PutLinesGuarded(s20, "price_change", margin,
                        wrap_text(price_change, width), min_y_pg2)

\* generate_welcome_letter(canvas_obj, data): the canvas when it returns or
\* raises, the cursor y_pos, and whether it raised
generate_welcome_letter(c, d, bg) ==
    LET p1 == WelcomePage1Body(WelcomePage1Head(c, d, bg[1]), d) IN
    IF p1.raised THEN p1
    ELSE WelcomePage2Prices(
           WelcomePage2Contract(WelcomePage2Head(p1.c, d, bg[2]), d), d)

\* the data.get / customer.get / account.get / pricing.get calls made before
\* the welcome paragraph is drawn, in order: <<section, key, default>>
ReadsHead(d) ==
    << <<"", "customer", EmptyDict>>, <<"", "account", EmptyDict>>,
       <<"", "pricing", EmptyDict>>, <<"", "website", DefaultWebsite>>,
       <<"", "business_hours", DefaultBusinessHours>>,
       <<"", "date", N_A>>,
       <<"", "date_display", dict_get(d, "date", N_A)>>,
       <<"customer", "account_number", N_A>>,
       <<"customer", "customer_number", N_A>>,
       <<"customer", "name", <<"Name">> >> >>

\* the get calls made after the welcome paragraph, in order
ReadsRest(d) ==
    << <<"customer", "phone", <<"TBC">> >>,
       <<"customer", "title", <<>> >>,
       <<"customer", "service_address", N_A>>,
       <<"account", "mpan", N_A>>, <<"account", "profile_class", N_A>>,
       <<"account", "contract_type", N_A>>,
       <<"account", "product_type", N_A>>,
       <<"account", "contract_start_date", N_A>>,
       <<"account", "contract_start_date_display",
         dict_get(account_of(d), "contract_start_date", N_A)>>,
       <<"account", "contract_end_date", N_A>>,
       <<"account", "contract_start_date", N_A>>,
       <<"pricing", "standing_charge", <<"GBP0.78">> >>,
       <<"pricing", "standing_charge_unit", <<"per", " ", "day">>>>,
       <<"pricing", "rate_1", <<"30.40">> >>,
       <<"pricing", "rate_1_unit", <<"p", " ", "/", " ", "kWh">>>>,
       <<"pricing", "rate_2", <<"21.10">> >>,
       <<"pricing", "rate_2_unit", <<"p", " ", "/", " ", "kWh">>>>,
       <<"pricing", "rate_1_label", <<"Rate", " ", "1">>>>,
       <<"pricing", "rate_2_label", <<"Rate", " ", "2">>>>,
       <<"pricing", "rate_1_description", <<"Day", " ", "charge">>>>,
       <<"pricing", "rate_2_description", <<"Night", " ", "Charge">>>>,
       <<"pricing", "rate_3_description", <<"Evening/Weekend", " ", "charge">>>> >>

\* the request after one get: a section that is absent from the request is a
\* fresh dict of the generator, not part of the request
ApplyRead(d, r) ==
    IF r[1] = "" THEN AfterGet(d, r[2], r[3])
    ELSE IF HasKey(d, r[1])
      THEN [d EXCEPT ![r[1]] = AfterGet(@, r[2], r[3])]
    ELSE d

RECURSIVE ApplyReads(_, _)
ApplyReads(d, rs) ==
    IF rs = <<>> THEN d ELSE ApplyReads(ApplyRead(d, Head(rs)), Tail(rs))

\* the Document Request after generate_welcome_letter(canvas_obj, d)
DataAfterWelcome(d, raised) ==
    IF raised THEN ApplyReads(d, ReadsHead(d))
    ELSE ApplyReads(d, ReadsHead(d) \o ReadsRest(d))

----------------------------------------------------------------------------
(* generate_contract, generate_billing_invoice: placeholders *)

StubPage_paged(c, title, notice) ==
    LET c1 == Tag(drawString(setFont(c, "font_bold"), 10, page_height - 1000,
                             title), "title")
    IN  showPage(Tag(drawString(setFont(c1, "font_normal"), 10,
                                page_height - 1500, notice), "notice"))
\* setFont bold 16, drawString(100, page_height - 100, title),
\* setFont normal 12, drawString(100, page_height - 150, notice)
StubPage(c, title, notice) ==
    LET c1 == Tag(drawString(setFont(c, "font_bold"), 10, page_height - 1000,
                             title), "title")
    IN  Tag(drawString(setFont(c1, "font_normal"), 10, page_height - 1500,
                       notice), "notice")

generate_contract(c, d) ==
    GenState(StubPage(c, <<"Contract", " ", "Document">>,
                      <<"Contract", " ", "template", " ", "-", " ", "To", " ", "be", " ", "implemented">>), 0)

generate_billing_invoice(c, d) ==
    GenState(StubPage(c, <<"Billing", " ", "Invoice", " ", "Document">>,
                      <<"Billing", " ", "invoice", " ", "template", " ", "-", " ", "To", " ", "be", " ", "implemented">>), 0)

----------------------------------------------------------------------------
(* The Document Requests and the generator calls that are checked *)

\* most words of an over-long business_hours value, most lines of an address
MaxHoursWords == 24
MaxAddressLines == 5

Restrict(d, keys) == [k \in DOMAIN d \cap keys |-> d[k]]

\* n words "bbbb" joined by single spaces
LongText(n) == [i \in 1..(5 * n - 1) |-> IF i % 5 = 0 THEN " " ELSE "b"]

\* an address of n lines; Python keeps the blanks around "\n", strip() drops them
RECURSIVE AddressOf(_)
AddressOf(n) ==
    IF n <= 1 THEN <<"Leeds">>
    ELSE <<"Unit", " ", "b", " ", "\n", " ">> \o AddressOf(n - 1)

FullCustomer ==
    [account_number |-> <<"ACC-1">>, customer_number |-> <<"CUS-1">>,
     name |-> <<"Jo", " ", "Doe">>, title |-> <<"Ms">>,
     phone |-> <<"0330", " ", "100">>, service_address |-> AddressOf(2)]

FullAccount ==
    [mpan |-> <<"MPAN-1">>, profile_class |-> <<"03">>,
     contract_type |-> <<"Fixed">>, product_type |-> <<"Business">>,
     contract_start_date_display |-> <<"1", " ", "March", " ", "2024">>,
     contract_start_date |-> <<"2024-03-01">>,
     contract_end_date |-> <<"2025-02-28">>]

FullPricing ==
    [standing_charge |-> <<"GBP0.50">>, standing_charge_unit |-> <<"daily">>,
     rate_1 |-> <<"25.00">>, rate_1_unit |-> <<"p">>,
     rate_2 |-> <<"15.00">>, rate_2_unit |-> <<"p">>,
     rate_1_label |-> <<"Day">>, rate_2_label |-> <<"Night">>,
     rate_1_description |-> <<"Daytime">>,
     rate_2_description |-> <<"Nighttime">>,
     rate_3_description |-> <<"Weekend">>]

FullRequest ==
    [customer |-> FullCustomer, account |-> FullAccount,
     pricing |-> FullPricing, website |-> <<"www.example.com">>,
     business_hours |-> <<"9am", " ", "to", " ", "5pm">>,
     date |-> <<"2024-01-15">>,
     date_display |-> <<"15", " ", "January", " ", "2024">>]

\* requests with some keys absent: any top-level keys, any customer keys, any
\* account keys, one or all pricing keys
SparseRequests ==
    {Restrict(FullRequest, S) : S \in SUBSET DOMAIN FullRequest}
    \cup {[FullRequest EXCEPT !.customer = Restrict(@, S)] :
            S \in SUBSET DOMAIN FullCustomer}
    \cup {[FullRequest EXCEPT !.account = Restrict(@, S)] :
            S \in SUBSET DOMAIN FullAccount}
    \cup {[FullRequest EXCEPT !.pricing = Restrict(@, DOMAIN @ \ {k})] :
            k \in DOMAIN FullPricing}
    \cup {[FullRequest EXCEPT !.pricing = EmptyDict]}

\* requests with long or unusual values: business hours of many words, an
\* address of many lines, an empty website, a website of several words, a
\* website that is also the last word of the welcome paragraph
WideRequests ==
    {[FullRequest EXCEPT !.business_hours = LongText(n)] :
        n \in {MaxHoursWords - 16, MaxHoursWords}}
    \cup {[FullRequest EXCEPT !.customer.service_address = AddressOf(n)] :
            n \in 1..MaxAddressLines}
    \cup {[FullRequest EXCEPT !.website = <<>>],
          [FullRequest EXCEPT !.website = LongText(8)],
          [FullRequest EXCEPT !.website = <<"used.">>]}

Requests == SparseRequests \cup WideRequests

Templates == {"welcome_letter", "contract", "billing_invoice"}
ImageStates == {"present", "missing", "broken"}

\* the generator of a template, applied
Generate(tpl, c, d, bg) ==
    CASE tpl = "welcome_letter"  -> generate_welcome_letter(c, d, bg)
      [] tpl = "contract"        -> generate_contract(c, d)
      [] tpl = "billing_invoice" -> generate_billing_invoice(c, d)

\* the Document Request after the generator of a template has run on it
DataAfter(tpl, d, raised) ==
    IF tpl = "welcome_letter" THEN DataAfterWelcome(d, raised) ELSE d

\* what the generator printed
LogAfter(tpl, bg, raised) ==
    IF tpl # "welcome_letter" THEN <<>>
    ELSE IF raised THEN BackgroundLog(<<>>, bg[1])
    ELSE BackgroundLog(BackgroundLog(<<>>, bg[1]), bg[2])

\* the states of the two image files a request is checked with: every
\* combination for the full, the empty and the wide requests
ImageCases(d) ==
    IF d \in WideRequests \cup {FullRequest, EmptyDict}
      THEN ImageStates \X ImageStates
      ELSE {<<"present", "missing">>}

\* the main variables while main does not run
MainIdle ==
    main_pc = "idle" /\ output_before = None /\ calls = <<>> /\ run = None

InitGen ==
    /\ MergeIdle /\ TextIdle /\ MainIdle
    /\ data \in Requests
    /\ template \in Templates
    /\ bg_images \in ImageCases(data)
    /\ gen_pc = "idle" /\ gen_log = <<>>

\* a call generate_<template>(canvas_obj, data) on a fresh canvas
GenCall ==
    /\ gen_pc = "idle"
    /\ \E r \in {Generate(template, canvas_obj, data, bg_images)} :
         /\ canvas_obj' = r.c
         /\ gen_pc' = IF r.raised THEN "raised" ELSE "done"
         /\ data' = DataAfter(template, data, r.raised)
         /\ gen_log' = LogAfter(template, bg_images, r.raised)
    /\ UNCHANGED <<template, bg_images>>
    /\ UNCHANGED <<text, max_width, lines, wrap_pc, url, x, y, current_x,
                   draw_pc>>
    /\ UNCHANGED <<mergeVars, mainVars>>

NextGen == GenCall

SpecGen == InitGen /\ [][NextGen]_vars

----------------------------------------------------------------------------
(* Properties of generate_welcome_letter *)

WelcomeReturned == template = "welcome_letter" /\ gen_pc = "done"
WelcomeRaised   == template = "welcome_letter" /\ gen_pc = "raised"

\* the pages of the canvas: the closed ones, then the open one
OpenPage(c) == [ops |-> c.ops, slots |-> c.slots]
PagesOf(c) == Append(c.pages, OpenPage(c))

\* the drawString operations of a page that belong to a field
TextOps(page) ==
    LET IsDrawString(o) == o.op = "drawString" IN SelectSeq(page.ops, IsDrawString)
SlotIndexes(page, slot) ==
    {i \in 1..Len(page.ops) :
        page.slots[i] = slot /\ page.ops[i].op = "drawString"}

RECURSIVE SortDescending(_)
SortDescending(S) ==
    IF S = {} THEN <<>>
    ELSE LET m == CHOOSE a \in S : \A b \in S : a >= b
         IN  <<m>> \o SortDescending(S \ {m})

\* the text a page shows at height py in a field: its pieces from left to right
LineAt(page, slot, py) ==
    LET Piece(i) == i \in SlotIndexes(page, slot) /\ page.ops[i].y = py
        idx == SelectSeq([i \in 1..Len(page.ops) |-> i], Piece)
    IN  Flatten([k \in 1..Len(idx) |-> page.ops[idx[k]].text])

\* the heights at which a field is drawn, top first, and the lines drawn there
SlotYs(page, slot) ==
    SortDescending({page.ops[i].y : i \in SlotIndexes(page, slot)})
DrawnLines(page, slot) ==
    LET ys == SlotYs(page, slot) IN
    [k \in 1..Len(ys) |-> LineAt(page, slot, ys[k])]

\* the lowest height at which a field is drawn (the field is drawn)
LastY(page, slot) ==
    LET ys == SlotYs(page, slot) IN ys[Len(ys)]

TextWidth == page_width - margin - right_margin

\* the wrapped lines of the two guarded paragraphs for the request d
WrappedContact(d) ==
    wrap_text(contact_text(website_of(d), phone_of(d), business_hours_of(d)),
              TextWidth)
WrappedChange == wrap_text(price_change, TextWidth)

\* the cursor when the guarded paragraph of page 1, of page 2 starts
ContactStartY(page) == LastY(page, "attached") - Times(line_spacing, 12)
ChangeStartY(page) ==
    LastY(page, "clarification") - line_spacing - Times(line_spacing, 5)

\* a guarded paragraph with wrapped lines ls, starting at cursor y0: the lines
\* drawn are the first k, one line_spacing apart from y0 down, all at or above
\* min_y, and if a line is missing the cursor had gone below min_y
GuardedPrefix(page, slot, ls, y0, min_y) ==
    LET drawn == DrawnLines(page, slot)
        ys == SlotYs(page, slot)
        k == Len(drawn)
    IN  /\ k <= Len(ls)
        /\ drawn = SubSeq(ls, 1, k)
        /\ \A i \in 1..k : ys[i] = y0 - (i - 1) * line_spacing /\ ys[i] >= min_y
        /\ k < Len(ls) => y0 - k * line_spacing < min_y

\* C14: in the guarded paragraph of each page of the welcome letter a wrapped
\* line is drawn only while the cursor is at or above min_y (5% of the page
\* height + 100 on page 1, + 20 on page 2); the lines drawn are a prefix of the
\* wrapped lines, the rest is dropped, and no page is started for it: the
\* canvas has the two pages of the letter and the paragraph is on its own page
C14_GuardDropsTail ==
    WelcomeReturned =>
      LET pages == PagesOf(canvas_obj) IN
      /\ Len(pages) = 2
      /\ GuardedPrefix(pages[1], "contact_paragraph", WrappedContact(data),
                       ContactStartY(pages[1]), min_y_pg1)
      /\ GuardedPrefix(pages[2], "price_change", WrappedChange,
                       ChangeStartY(pages[2]), min_y_pg2)
      /\ SlotIndexes(pages[2], "contact_paragraph") = {}
      /\ SlotIndexes(pages[1], "price_change") = {}

\* a request whose contact paragraph lost lines on page 1 after some were
\* drawn and whose price-change paragraph lost lines on page 2
C14_Witness ==
    /\ WelcomeReturned
    /\ LET pages == PagesOf(canvas_obj)
           k1 == Len(DrawnLines(pages[1], "contact_paragraph"))
           k2 == Len(DrawnLines(pages[2], "price_change"))
       IN  /\ 0 < k1 /\ k1 < Len(WrappedContact(data))
           /\ 0 < k2 /\ k2 < Len(WrappedChange)

\* every text of a page is drawn at or above min_y
AllTextAbove(page, min_y) ==
    \A i \in 1..Len(page.ops) :
        page.ops[i].op = "drawString" => page.ops[i].y >= min_y

\* C15: for every Document Request no text of page 1 or page 2 of the welcome
\* letter is drawn below the footer limit of its page (5% of the page height
\* plus the safety margin): the cursor stops before the reserved footer zone
C15_NoTextBelowFooterLimit ==
    WelcomeReturned =>
      LET pages == PagesOf(canvas_obj) IN
      /\ AllTextAbove(pages[1], min_y_pg1)
      /\ AllTextAbove(pages[2], min_y_pg2)

\* the fields of page 1 and of page 2 of the welcome letter
Page1Slots ==
    {"background", "confidential", "date", "account_number_label",
     "account_number", "customer_number_label", "customer_number", "greeting",
     "welcome_title", "welcome_paragraph", "look_forward", "benefits_title",
     "benefit", "attached", "contact_paragraph"}
Page2Slots ==
    {"background", "section_text", "renewal_terms", "note_text", "section1",
     "customer_name", "address_label", "address_line", "mpan", "profile_class",
     "section2", "contract_type", "product_type", "contract_start",
     "contract_end", "section3", "price_header", "pricing_line", "labels_line",
     "rates_line", "clarification", "price_change"}

\* C16: generate_welcome_letter ends a page exactly once: the closed page holds
\* all that was drawn for page 1 and nothing of page 2, the open page holds all
\* that was drawn for page 2, starting again at the header offset, and page 2
\* is still open (not closed by a second end-of-page call) when the generator
\* returns; a call that raises has ended no page
C16_OnePageBreak ==
    /\ WelcomeReturned =>
         /\ Len(canvas_obj.pages) = 1
         /\ Range(canvas_obj.pages[1].slots) \subseteq Page1Slots
         /\ "contact_paragraph" \in Range(canvas_obj.pages[1].slots)
              \/ "attached" \in Range(canvas_obj.pages[1].slots)
         /\ canvas_obj.ops # <<>>
         /\ Range(canvas_obj.slots) \subseteq Page2Slots
         /\ TextOps(OpenPage(canvas_obj))[1].y = StartY
         /\ "section_text" \in Range(canvas_obj.slots)
    /\ WelcomeRaised => canvas_obj.pages = <<>>

\* the generator has returned with both pages drawn in full
C16_Witness ==
    /\ WelcomeReturned
    /\ canvas_obj.pages # <<>>
    /\ "contact_paragraph" \in Range(canvas_obj.pages[1].slots)
    /\ "price_change" \in Range(canvas_obj.slots)

\* the value of a key of a section of the request, or the fallback when the
\* section or the key is absent
FieldOr(d, section, key, fallback) ==
    IF HasKey(d, section) /\ HasKey(d[section], key) THEN d[section][key]
    ELSE fallback
TopOr(d, key, fallback) == IF HasKey(d, key) THEN d[key] ELSE fallback

\* the text of a field that is drawn once
SlotText(page, slot) ==
    page.ops[CHOOSE i \in SlotIndexes(page, slot) : TRUE].text
EndsWith(s, tail) ==
    Len(tail) <= Len(s) /\ SubSeq(s, Len(s) - Len(tail) + 1, Len(s)) = tail
\* some line drawn for a field contains the words w
SomeLineHas(page, slot, w) ==
    \E i \in SlotIndexes(page, slot) : Contains(page.ops[i].text, w)

\* C17: every field of the Document Request is optional: no absent section or
\* field makes generate_welcome_letter raise, and each absent value is drawn as
\* its literal fallback: "N/A" for account number, customer number, date (after
\* date_display, then date), service address, MPAN, profile class, contract
\* type, product type, contract start date (after contract_start_date_display,
\* then contract_start_date) and end date, "TBC" for phone, "Name" for the name
C17_AbsentFieldsFallBack ==
    /\ WelcomeRaised => HasKey(data, "website") /\ data["website"] = <<>>
    /\ WelcomeReturned =>
         LET p1 == PagesOf(canvas_obj)[1]
             p2 == PagesOf(canvas_obj)[2]
             NA == <<"N/A">>
         IN
         /\ SlotText(p1, "account_number")
              = FieldOr(data, "customer", "account_number", NA)
         /\ SlotText(p1, "customer_number")
              = FieldOr(data, "customer", "customer_number", NA)
         /\ SlotText(p1, "date")
              = TopOr(data, "date_display", TopOr(data, "date", NA))
         /\ SlotText(p1, "greeting")
              = <<"Hi", " ">> \o FieldOr(data, "customer", "name", <<"Name">>)
                  \o <<",">>
         /\ SomeLineHas(p1, "contact_paragraph", <<"TBC", ".">>)
              <=> FieldOr(data, "customer", "phone", None) = None
         /\ FieldOr(data, "customer", "service_address", None) = None
              => DrawnLines(p2, "address_line") = <<NA>>
         /\ \A k \in {"mpan", "profile_class", "contract_type", "product_type"} :
              EndsWith(SlotText(p2, k),
                       <<" ">> \o FieldOr(data, "account", k, NA))
         /\ Contains(SlotText(p2, "contract_start"),
                     <<"date:", " ">>
                       \o FieldOr(data, "account", "contract_start_date_display",
                                  FieldOr(data, "account", "contract_start_date",
                                          NA))
                       \o <<" ", "(subject">>)
         /\ Contains(SlotText(p2, "contract_end"),
                     <<"date:", " ">>
                       \o FieldOr(data, "account", "contract_end_date", NA)
                       \o <<" ", "(to">>)

\* the generator has returned for the request with no field at all
C17_Witness ==
    /\ WelcomeReturned
    /\ data = EmptyDict
    /\ SlotText(PagesOf(canvas_obj)[2], "mpan")
         = <<"MPAN", " ", "(electricity):", " ", "N/A">>

\* the order in which the fields of page 1 and of page 2 are drawn
Page1Order ==
    <<"confidential", "date", "account_number_label", "account_number",
      "customer_number_label", "customer_number", "greeting", "welcome_title",
      "welcome_paragraph", "look_forward", "benefits_title", "benefit",
      "attached", "contact_paragraph">>
Page2Order ==
    <<"section_text", "renewal_terms", "note_text", "section1",
      "customer_name", "address_label", "address_line", "mpan",
      "profile_class", "section2", "contract_type", "product_type",
      "contract_start", "contract_end", "section3", "price_header",
      "pricing_line", "labels_line", "rates_line", "clarification",
      "price_change">>

\* the fields of a page in drawing order, each named once per run, without the
\* background image
FieldOrder(page) ==
    LET Starts(i) == /\ page.slots[i] # "background"
                     /\ i > 1 => page.slots[i - 1] # page.slots[i]
        idx == SelectSeq([i \in 1..Len(page.slots) |-> i], Starts)
    IN  [k \in 1..Len(idx) |-> page.slots[idx[k]]]

\* the order, or the order without its last field (the guarded paragraph)
IsOrder(fields, order) ==
    fields = order \/ fields = SubSeq(order, 1, Len(order) - 1)

\* no text of the page is drawn above a text drawn before it
Descending(page) ==
    LET ops == TextOps(page) IN
    \A i \in 1..Len(ops) : \A j \in i..Len(ops) : ops[i].y >= ops[j].y

\* C18: the fields of each page of the welcome letter are drawn in one fixed
\* order whatever the Document Request is (only the values, the number of
\* lines of a field and a dropped guarded paragraph differ), and no field is
\* drawn above the field drawn before it on its page
C18_FixedFieldOrder ==
    WelcomeReturned =>
      LET pages == PagesOf(canvas_obj) IN
      /\ IsOrder(FieldOrder(pages[1]), Page1Order)
      /\ IsOrder(FieldOrder(pages[2]), Page2Order)
      /\ Descending(pages[1]) /\ Descending(pages[2])

\* a letter with more address lines than usual whose guarded paragraph on
\* page 2 was dropped as a whole
C18_Witness ==
    /\ WelcomeReturned
    /\ Len(DrawnLines(PagesOf(canvas_obj)[2], "address_line")) > 2
    /\ FieldOrder(PagesOf(canvas_obj)[2])
         = SubSeq(Page2Order, 1, Len(Page2Order) - 1)
    /\ FieldOrder(PagesOf(canvas_obj)[1]) = Page1Order

\* a page without its image draws, and the number of its image draws
WithoutImages(page) ==
    LET Kept(i) == page.ops[i].op # "drawImage"
        idx == SelectSeq([i \in 1..Len(page.ops) |-> i], Kept)
    IN  [k \in 1..Len(idx) |-> page.ops[idx[k]]]
ImageCount(page) ==
    Cardinality({i \in 1..Len(page.ops) : page.ops[i].op = "drawImage"})
PagesWithoutImages(c) ==
    [k \in 1..Len(PagesOf(c)) |-> WithoutImages(PagesOf(c)[k])]

\* C19: whatever the state of the two background image files (present,
\* missing, present but not loadable), generate_welcome_letter ends as it ends
\* without images, with the same texts and lines at the same positions on the
\* same pages; an image is drawn on a page exactly when its file loads
C19_ImagesDoNotChangeText ==
    (template = "welcome_letter" /\ gen_pc # "idle") =>
      LET plain == generate_welcome_letter(NewCanvas(BLACK), data,
                                           <<"missing", "missing">>)
          pages == PagesOf(canvas_obj)
      IN  /\ (gen_pc = "raised") = plain.raised
          /\ PagesWithoutImages(canvas_obj) = PagesWithoutImages(plain.c)
          /\ \A k \in 1..Len(pages) :
               ImageCount(pages[k])
                 = IF k <= 2 /\ bg_images[k] = "present" THEN 1 ELSE 0

\* the image of page 1 does not load, the image of page 2 does
C19_Witness ==
    /\ WelcomeReturned
    /\ bg_images = <<"broken", "present">>
    /\ gen_log = <<"warn_background_image">>
    /\ ImageCount(PagesOf(canvas_obj)[1]) = 0
    /\ ImageCount(PagesOf(canvas_obj)[2]) = 1

\* C20: a template generator (generate_welcome_letter, generate_contract,
\* generate_billing_invoice) never mutates the Document Request: the mapping
\* and its customer, account and pricing sections hold after the call exactly
\* the keys and values they held before, also when fallbacks were used
C20_RequestNotMutated == [][GenCall => data' = data]_vars

\* the welcome letter was generated from a request without an account section
\* and without a phone: fallbacks were drawn and the request is as it was
C20_Witness ==
    /\ WelcomeReturned
    /\ ~HasKey(data, "account")
    /\ HasKey(data, "customer")
    /\ EndsWith(SlotText(PagesOf(canvas_obj)[2], "mpan"), <<" ", "N/A">>)

----------------------------------------------------------------------------
(* generate_static_pages, add_page_footer (welcome_letter/static_pages.py) *)

total_pages == 10
static_start_page == 3

\* str(n) for a page number
str(n) == <<"1", "2", "3", "4", "5", "6", "7", "8", "9", "10", "11", "12">>[n]

\* canvas_obj.rect(px, py, w, h)
rect(c, px, py, w, h) ==
    [c EXCEPT !.ops = Append(@, [op |-> "rect", x |-> px, y |-> py,
                                 w |-> w, h |-> h, color |-> c.stroke,
                                 lineWidth |-> c.lineWidth])]

\* drawString((page_width - stringWidth(s)) / 2, py, s)
Centered(c, slot, py, s) ==
    Tag(drawString(c, (page_width - stringWidth(s)) \div 2, py, s), slot)

\* add_page_footer(canvas_obj, page_num, total): "Page n of total" at y = 30;
\* saveState and restoreState put the font back
add_page_footer(c, page_num, total) ==
    LET footer_text == <<"Page", " ">> \o str(page_num) \o <<" ", "of", " ">>
                         \o str(total)
    IN  setFont(Centered(setFont(c, "font_normal"), "static_footer", 300,
                         footer_text),
                c.font)

\* the body of one static page (lines 55-91)
StaticBody(c, page_num) ==
    LET c1 == Centered(setFont(c, "font_bold"), "static_header",
                       page_height - 800, <<"Company", " ", "Report", " ", "Template">>)
        c2 == Tag(line(c1, 10, page_height - 950, page_width - 10,
                       page_height - 950), "static_rule")
        c3 == Centered(setFont(c2, "font_normal"), "static_content",
                       page_height \div 2,
                       <<"This", " ", "is", " ", "a", " ", "static", " ", "page", " ", "-", " ", "Company", " ", "Report", " ", "Template">>)
        start_y == page_height \div 2 - 600
        c4 == Centered(c3, "static_placeholder", start_y,
                       <<"This", " ", "page", " ", "follows", " ", "a", " ", "consistent", " ", "template", " ", "design.">>)
        c5 == Centered(c4, "static_placeholder", start_y - 250,
                       <<"All", " ", "static", " ", "pages", " ", "(pages", " ", "3-10)", " ", "use", " ", "this", " ", "same", " ", "layout.">>)
        c6 == Centered(c5, "static_placeholder", start_y - 500,
                       <<"You", " ", "can", " ", "customize", " ", "this", " ", "template", " ", "as", " ", "needed", " ", "for", " ", "your", " ", "reports.">>)
        c7 == Tag(rect(setLineWidth(c6, "1"), 8, 1500, page_width - 16,
                       page_height - 2800), "static_border")
    IN  add_page_footer(c7, page_num, total_pages)

MorePages_always(page_num) == TRUE
\* "if page_num < total_pages": a page follows
MorePages(page_num) == page_num < total_pages

\* "for page_num in range(start_page, total_pages + 1)": the body of the page,
\* then showPage if a page follows (c1 ranges over the one canvas the body
\* gives, so that each page is computed before the loop goes on)
RECURSIVE StaticLoop(_, _)
StaticLoop(c, page_num) ==
    IF page_num > total_pages THEN c
    ELSE CHOOSE r \in
           {StaticLoop(IF MorePages(page_num) THEN showPage(c1) ELSE c1,
                       page_num + 1) : c1 \in {StaticBody(c, page_num)}} : TRUE

generate_static_pages(c) == StaticLoop(c, static_start_page)

\* canvas.save(): the open page is ended if something was drawn on it; the
\* pages are the document
SavedPages(c) == IF c.ops # <<>> THEN showPage(c).pages ELSE c.pages

----------------------------------------------------------------------------
(* main (main.py): the document assembly *)

\* the pages of the format PDF, a page of an earlier document
FormatPages(k) ==
    [i \in 1..k |-> [ops |-> <<[op |-> "format", page |-> i - 1]>>,
                     slots |-> <<"format">>]]
OldPage == [ops |-> <<[op |-> "old"]>>, slots |-> <<"old">>]

\* the requests main is run with: a usual one, and one whose website is empty
MainRequests == {FullRequest, [FullRequest EXCEPT !.website = <<>>]}

\* generate_dynamic_pages(c, data) of main.py: page 1, showPage, page 2 left
\* open, as generate_welcome_letter
generate_dynamic_pages(c, d) == generate_welcome_letter(c, d, bg_images)

FormatExists_never(f) == FALSE
\* "if os.path.exists(format_pdf)"
FormatExists(f) == os_path_exists(f, FormatPdf)

InitMain ==
    /\ TextIdle
    /\ data \in MainRequests /\ template = "welcome_letter"
    /\ bg_images = <<"present", "missing">>
    /\ gen_pc = "idle" /\ gen_log = <<>>
    /\ HAS_PYPDF \in BOOLEAN
    /\ \E old \in BOOLEAN, stale \in BOOLEAN,
          format \in {NoFile, BrokenFile, PdfFile(FormatPages(2)),
                      PdfFile(FormatPages(MaxSourcePages + 1))} :
         fs = [p \in Paths |->
                 IF p = OutputPdf
                   THEN IF old THEN PdfFile(<<OldPage>>) ELSE NoFile
                 ELSE IF p = TempPdf
                   THEN IF stale THEN PdfFile(<<OldPage>>) ELSE NoFile
                 ELSE IF p = FormatPdf THEN format
                 ELSE NoFile]
    /\ fs_before = fs
    /\ pc = "idle"
    /\ source_pdf_path = None /\ target_pdf_path = None /\ start_page = 0
    /\ source_reader = None /\ target_reader = None
    /\ writer = <<>> /\ merged_path = None
    /\ log = <<>> /\ result = None
    /\ main_pc = "idle" /\ output_before = fs[OutputPdf] /\ calls = <<>>
    /\ run = None

mergeState == <<fs_before, pc, source_pdf_path, target_pdf_path, start_page,
                source_reader, target_reader, writer, merged_path, log, result>>

\* lines 568-580: data.json is missing (return), unreadable (raise), or loaded
MainStart ==
    /\ main_pc = "idle"
    /\ \E json \in {"missing", "invalid", "loaded"} :
         /\ main_pc' = CASE json = "missing" -> "done"
                         [] json = "invalid" -> "raised"
                         [] OTHER -> "generate"
         /\ calls' = IF json = "missing" THEN calls
                     ELSE Append(calls, <<"load_json_data">>)
    /\ UNCHANGED <<output_before, run, HAS_PYPDF, fs, mergeState, textVars, genVars>>

\* lines 584-587 and, when the format PDF does not exist, lines 600-601:
\* c = canvas.Canvas(temp_output); generate_dynamic_pages(c, data)
MainDynamic ==
    /\ \/ main_pc = "generate"
       \/ main_pc = "branch" /\ ~FormatExists(fs)
    /\ \E r \in {generate_dynamic_pages(NewCanvas(BLACK), data)} :
         /\ canvas_obj' = IF r.raised THEN canvas_obj ELSE r.c
         /\ main_pc' = IF r.raised THEN "raised"
                       ELSE IF main_pc = "generate" THEN "save" ELSE "static"
    /\ calls' = Append(calls, <<"generate_dynamic_pages">>)
    /\ UNCHANGED <<text, max_width, lines, wrap_pc, url, x, y, current_x,
                   draw_pc>>
    /\ UNCHANGED <<output_before, run, HAS_PYPDF, fs, mergeState, genVars>>

\* lines 590 and 603: c.save() writes the temp file, or fails before or
\* while it writes
MainSave ==
    /\ main_pc \in {"save", "save_static"}
    /\ \E outcome \in {"saved", "open_fails", "write_fails"} :
         /\ fs' = CASE outcome = "saved" ->
                         [fs EXCEPT ![TempPdf] = PdfFile(SavedPages(canvas_obj))]
                    [] outcome = "write_fails" -> open_wb(fs, TempPdf)
                    [] OTHER -> fs
         /\ main_pc' = IF outcome # "saved" THEN "raised"
                       ELSE IF main_pc = "save" THEN "branch" ELSE "rename"
    /\ calls' = Append(calls, <<"save">>)
    /\ UNCHANGED <<output_before, run, HAS_PYPDF, mergeState, textVars, genVars>>

\* lines 594-596: merge_pdf_pages(format_pdf, temp_output, start_page=2)
MainMerge ==
    /\ main_pc = "branch"
    /\ FormatExists(fs)
    /\ MergeEnter(FormatPdf, TempPdf, 2)
    /\ main_pc' = "merging"
    /\ calls' = Append(calls, <<"merge_pdf_pages", FormatPdf, TempPdf, 2>>)
    /\ UNCHANGED <<output_before, run, textVars, genVars>>

\* merge_pdf_pages has returned (it returns also after an error)
MainMergeReturn ==
    /\ main_pc = "merging" /\ pc = "done"
    /\ main_pc' = "rename"
    /\ UNCHANGED <<output_before, run, calls, mergeVars, textVars, genVars>>

\* line 602: generate_static_pages(c), on the canvas the dynamic pages were
\* just drawn on
MainStatic ==
    /\ main_pc = "static"
    /\ \E c \in {generate_static_pages(canvas_obj)} : canvas_obj' = c
    /\ main_pc' = "save_static"
    /\ calls' = Append(calls, <<"generate_static_pages">>)
    /\ UNCHANGED <<text, max_width, lines, wrap_pc, url, x, y, current_x,
                   draw_pc>>
    /\ UNCHANGED <<output_before, run, HAS_PYPDF, fs, mergeState, genVars>>

\* lines 606-607: "if os.path.exists(temp_output): os.replace(temp_output,
\* output_file)"
MainRename ==
    /\ main_pc = "rename"
    /\ IF os_path_exists(fs, TempPdf)
         THEN \E fail \in BOOLEAN :
                IF fail THEN main_pc' = "raised" /\ UNCHANGED fs
                ELSE /\ main_pc' = "done"
                     /\ fs' = os_replace(fs, TempPdf, OutputPdf)
         ELSE main_pc' = "done" /\ UNCHANGED fs
    /\ UNCHANGED <<output_before, run, calls, HAS_PYPDF, mergeState, textVars,
                   genVars>>

NextMain ==
    \/ MainStart
    \/ MainDynamic
    \/ MainSave
    \/ MainMerge
    \/ ReadSource
    \/ ReadTarget
    \/ AddPages
    \/ OpenMerged
    \/ WriteMerged
    \/ ReplaceTarget
    \/ MergeExcept
    \/ MainMergeReturn
    \/ MainStatic
    \/ MainRename

SpecMain == InitMain /\ [][NextMain]_vars

----------------------------------------------------------------------------
(* Properties of main *)

MergeCallEntry == <<"merge_pdf_pages", FormatPdf, TempPdf, 2>>
StaticCallEntry == <<"generate_static_pages">>
CallIndexes(entry) == {i \in 1..Len(calls) : calls[i] = entry}
MergerCalls == {i \in 1..Len(calls) : calls[i][1] = "merge_pdf_pages"}
\* main is past the branch on the format PDF and has made the branch's call
PastBranch ==
    \/ main_pc \in {"merging", "save_static", "rename"}
    \/ main_pc = "done" /\ calls # <<>>

\* the run failed: an exception left main, or the merger reported its error
RunFailed == main_pc = "raised" \/ "error_merging" \in Range(log)

\* C11: the file at the final output path is changed only by the rename of
\* the temp file; if the run fails at an earlier step (page generation, saving
\* the temp file, merging, static-page generation) the output path holds
\* exactly what it held before the run
C11_FailedRunKeepsOutput == RunFailed => fs[OutputPdf] = output_before

\* C12: after the dynamic pages are saved to the temp file exactly one of the
\* two continuations is taken: the merger on the temp file with start index 2
\* and no static pages if the format PDF exists, the static pages and no merger
\* if it does not
C12_OneContinuation ==
    /\ MergerCalls = CallIndexes(MergeCallEntry)
    /\ Cardinality(MergerCalls) + Cardinality(CallIndexes(StaticCallEntry)) <= 1
    /\ PastBranch =>
         Cardinality(MergerCalls) + Cardinality(CallIndexes(StaticCallEntry)) = 1
    /\ MergerCalls # {} => os_path_exists(fs, FormatPdf)
    /\ CallIndexes(StaticCallEntry) # {} => ~os_path_exists(fs, FormatPdf)
    /\ \A i \in MergerCalls \cup CallIndexes(StaticCallEntry) :
         \E j \in 1..(i - 1) : calls[j] = <<"save">>

\* a run with a format PDF of more than two pages ended: the merger was called
\* and the document carries the format PDF's trailing pages
C12_Witness ==
    /\ main_pc = "done"
    /\ calls = << <<"load_json_data">>, <<"generate_dynamic_pages">>,
                  <<"save">>, MergeCallEntry >>
    /\ Len(fs[OutputPdf].pages) > 2

StaticSlots == {"static_header", "static_rule", "static_content",
                "static_placeholder", "static_footer", "static_border"}
HasStatic(page) == \E i \in 1..Len(page.slots) : page.slots[i] \in StaticSlots
HasDynamic(page) == \E i \in 1..Len(page.slots) : page.slots[i] \notin StaticSlots
FooterText(n) == <<"Page", " ">> \o str(n) \o <<" ", "of", " ">> \o str(total_pages)
FootedAs(page, n) ==
    \E i \in 1..Len(page.ops) :
       page.slots[i] = "static_footer" /\ page.ops[i].text = FooterText(n)
\* the run took the static path and published its document
StaticDocumentPublished ==
    /\ main_pc = "done"
    /\ StaticCallEntry \in Range(calls)

\* C13: the document of the static path is the two dynamic pages followed by
\* the static pages; no page carries both request content and static content,
\* the document has 10 pages and the page footed "Page n of 10" is page n
C13_StaticPagesStartFresh ==
    StaticDocumentPublished =>
      LET doc == fs[OutputPdf].pages
      IN  /\ Len(doc) = total_pages
          /\ \A k \in 1..Len(doc) : ~(HasStatic(doc[k]) /\ HasDynamic(doc[k]))
          /\ \A k \in 1..Len(doc) :
               \A n \in static_start_page..total_pages :
                  FootedAs(doc[k], n) => k = n

----------------------------------------------------------------------------
(* Further properties of the generators *)

\* the heights of the texts of a page, in the order they were drawn
YsInOrder(page) ==
    LET ops == TextOps(page) IN [i \in 1..Len(ops) |-> ops[i].y]
\* the fields drawn line by line: wrapped paragraphs, bullets, address lines
LineSlots == {"welcome_paragraph", "benefit", "contact_paragraph",
              "section_text", "note_text", "address_line", "clarification",
              "price_change"}
\* a tenth of the line-height unit: the factors the code uses (0.3, 0.5, 1.2,
\* 1.5, 2, 2.5, 9.5) have one decimal
UnitTenth == line_spacing \div 10

\* C21: on each of the two pages of the welcome letter the cursor starts at
\* page height minus the 15% header band minus 30; every later text is drawn
\* at the same height or lower, lower by a multiple of the line-height unit
\* (in tenths), never higher; inside a wrapped paragraph, the bullet list and
\* the address lines each line is exactly one unit below the one before
C21_CursorDescends ==
    WelcomeReturned =>
      \A k \in 1..2 :
        LET page == PagesOf(canvas_obj)[k]
            ys == YsInOrder(page)
        IN  /\ ys # <<>>
            /\ ys[1] = page_height - (page_height * 15) \div 100 - 300
            /\ \A i \in 1..(Len(ys) - 1) :
                 /\ ys[i + 1] <= ys[i]
                 /\ (ys[i] - ys[i + 1]) % UnitTenth = 0
            /\ \A slot \in LineSlots :
                 LET sy == SlotYs(page, slot) IN
                 \A i \in 1..(Len(sy) - 1) : sy[i] - sy[i + 1] = line_spacing

\* a letter with several address lines, a welcome paragraph of several lines
\* and a clarification paragraph of several lines
C21_Witness ==
    /\ WelcomeReturned
    /\ Len(SlotYs(PagesOf(canvas_obj)[2], "address_line")) >= 3
    /\ Len(SlotYs(PagesOf(canvas_obj)[1], "welcome_paragraph")) >= 2
    /\ Len(SlotYs(PagesOf(canvas_obj)[2], "clarification")) >= 2

StubTemplates == {"contract", "billing_invoice"}
StubTitle ==
    IF template = "contract" THEN <<"Contract", " ", "Document">>
    ELSE <<"Billing", " ", "Invoice", " ", "Document">>
StubCalled == template \in StubTemplates /\ gen_pc # "idle"

\* C22: the contract and the billing-invoice generator are stubs: for every
\* Document Request each returns, having drawn on the canvas it was given
\* exactly two texts, its title and then its "To be implemented" notice, the
\* same two whatever the request holds, and having ended no page
C22_StubsDrawTitleAndNotice ==
    StubCalled =>
      /\ gen_pc = "done"
      /\ canvas_obj.pages = <<>>
      /\ Len(canvas_obj.ops) = 2
      /\ \A i \in 1..2 : canvas_obj.ops[i].op = "drawString"
      /\ canvas_obj.ops[1].text = StubTitle
      /\ canvas_obj.ops[1].y = page_height - 1000
      /\ EndsWith(canvas_obj.ops[2].text,
                  <<"template", " ", "-", " ", "To", " ", "be", " ", "implemented">>)
      /\ canvas_obj.ops[2].y = page_height - 1500
      /\ gen_log = <<>>

\* the billing-invoice stub has run on a request that has no fields at all
C22_Witness ==
    /\ template = "billing_invoice"
    /\ gen_pc = "done"
    /\ data = EmptyDict
    /\ Len(canvas_obj.ops) = 2

\* the first word of a line
FirstWord(ln) == str_split(ln)[1]

\* C23: wrap_text is greedy: for every two consecutive returned lines the
\* earlier line, one space and the first word of the later line together
\* measure more than max_width, so a line is closed only when the next word
\* does not fit on it
C23_WrapIsGreedy ==
    WrapDone =>
      \A i \in 1..(Len(lines) - 1) :
         stringWidth(lines[i] \o <<" ">> \o FirstWord(lines[i + 1])) > max_width

\* a first line of two words that fills max_width exactly, and a second line
C23_Witness ==
    /\ WrapDone
    /\ Len(lines) >= 2
    /\ ~IsSingleWord(lines[1])
    /\ stringWidth(lines[1]) = max_width

\* C24: merge_pdf_pages writes the merged document to an intermediate file
\* whose path differs from the target path, for every target path; the target
\* file is never opened for writing and is changed only by the replace step
\* that follows the complete write of the intermediate file
C24_TargetChangedOnlyByReplace ==
    [][/\ merged_path' # None => merged_path' # target_pdf_path'
       /\ (pc # "idle" /\ fs'[target_pdf_path] # fs[target_pdf_path])
            => pc = "replace" /\ fs[merged_path] = PdfFile(writer)]_vars

\* the texts of a field on a page
SlotCount(page, slot) ==
    Cardinality({i \in 1..Len(page.slots) : page.slots[i] = slot})
\* the j-th page drawn on by generate_static_pages, called on canvas c0 and
\* returning c1: the page that was open in c0 is the first
StaticPageOf(c0, c1, j) == PagesOf(c1)[Len(c0.pages) + j]
StaticCallStep == main_pc = "static" /\ main_pc' = "save_static"

\* C25: generate_static_pages draws exactly 8 static page bodies, footed
\* "Page n of 10" for n = 3, ..., 10 in this order, and ends a page exactly 7
\* times, once between two consecutive bodies: the first body is drawn on the
\* page that is open when it is called, and the last page is left open
C25_EightBodiesSevenBreaks ==
    [][StaticCallStep =>
         /\ Len(canvas_obj'.pages) = Len(canvas_obj.pages) + 7
         /\ SubSeq(canvas_obj'.pages, 1, Len(canvas_obj.pages)) = canvas_obj.pages
         /\ SubSeq(StaticPageOf(canvas_obj, canvas_obj', 1).ops, 1,
                   Len(canvas_obj.ops)) = canvas_obj.ops
         /\ Len(PagesOf(canvas_obj')) = Len(canvas_obj.pages) + 8
         /\ \A j \in 1..8 :
              LET page == StaticPageOf(canvas_obj, canvas_obj', j) IN
              /\ SlotCount(page, "static_header") = 1
              /\ SlotCount(page, "static_footer") = 1
              /\ FootedAs(page, j + 2)
         /\ canvas_obj'.ops # <<>>]_vars

\* the static pages were drawn after the two dynamic pages: eight pages are
\* closed, the open one is footed "Page 10 of 10"
C25_Witness ==
    /\ main_pc = "save_static"
    /\ Len(canvas_obj.pages) = 8
    /\ FootedAs(OpenPage(canvas_obj), 10)

----------------------------------------------------------------------------
(* Two runs of main at the same time (main.py 556-609): they share the     *)
(* filesystem and nothing else; every run uses the paths temp_output,      *)
(* its "_merged" intermediate path, and output_file                        *)

Runs == {"A", "B"}
MergedPdf == MergedPathOf(TempPdf)
\* an open file whose directory entry was replaced
Gone == <<"gone">>

\* page i of the document of run p
RunPage(p, i) ==
    [ops |-> <<[op |-> "run", run |-> p, page |-> i]>>, slots |-> <<"run">>]
\* what generate_dynamic_pages leaves on the canvas of run p: two pages
DynamicDoc(p) == [i \in 1..2 |-> RunPage(p, i)]
\* the canvas after generate_dynamic_pages and generate_static_pages
StaticDoc(p) == [i \in 1..(total_pages - 1) |-> RunPage(p, i)]

\* run p while it is at position q
RunAt(p, q) == run[p].pc = q
Goto(p, q) == [run EXCEPT ![p].pc = q]

\* os.replace(src, dst) as the open files see it: a file open at src is now
\* at dst, a file that was open at dst has lost its name
Moved(r, src, dst) ==
    [q \in Runs |->
       [r[q] EXCEPT !.at = IF @ = src THEN dst
                           ELSE IF @ = dst THEN Gone ELSE @]]

\* the outcomes of run p writing pages to the file it has open: the content
\* goes to the file wherever its name is now; when another run has the same
\* file open the bytes of the two may mix
Written(f, p, pages) ==
    LET path == run[p].at IN
    IF path = Gone THEN {f}
    ELSE IF \E q \in Runs \ {p} : run[q].at = path
      THEN {[f EXCEPT ![path] = PdfFile(pages)],
            [f EXCEPT ![path] = BrokenFile]}
    ELSE {[f EXCEPT ![path] = PdfFile(pages)]}

TwoUnchanged ==
    UNCHANGED <<HAS_PYPDF, fs_before, pc, source_pdf_path, target_pdf_path,
                start_page, source_reader, target_reader, writer, merged_path,
                log, result, textVars, genVars, main_pc, output_before, calls>>

InitTwo ==
    /\ TextIdle
    /\ data = <<>> /\ template = "none"
    /\ bg_images = <<"missing", "missing">>
    /\ gen_pc = "idle" /\ gen_log = <<>>
    /\ HAS_PYPDF = TRUE
    /\ \E old \in BOOLEAN,
          format \in {NoFile, PdfFile(FormatPages(MaxSourcePages + 1))} :
         fs = [p \in Paths |->
                 IF p = OutputPdf
                   THEN IF old THEN PdfFile(<<OldPage>>) ELSE NoFile
                 ELSE IF p = FormatPdf THEN format
                 ELSE NoFile]
    /\ fs_before = fs
    /\ pc = "idle"
    /\ source_pdf_path = None /\ target_pdf_path = None /\ start_page = 0
    /\ source_reader = None /\ target_reader = None
    /\ writer = <<>> /\ merged_path = None
    /\ log = <<>> /\ result = None
    /\ main_pc = "idle" /\ output_before = fs[OutputPdf] /\ calls = <<>>
    /\ run = [p \in Runs |->
               [pc |-> "start", doc |-> <<>>, static |-> FALSE, at |-> None,
                source_reader |-> None, writer |-> <<>>, log |-> <<>>]]

\* lines 579-587: data.json is loaded, the canvas created, the dynamic pages
\* drawn (the file is not opened before save)
RunGenerate(p) ==
    /\ RunAt(p, "start")
    /\ run' = [run EXCEPT ![p].pc = "save_open", ![p].doc = DynamicDoc(p)]
    /\ UNCHANGED fs
    /\ TwoUnchanged

\* lines 590 and 603, c.save(): the temp file is opened for writing
RunSaveOpen(p) ==
    /\ RunAt(p, "save_open")
    /\ fs' = open_wb(fs, TempPdf)
    /\ run' = [run EXCEPT ![p].pc = "save_write", ![p].at = TempPdf]
    /\ TwoUnchanged

\* c.save(): the document is written and the file closed
RunSaveWrite(p) ==
    /\ RunAt(p, "save_write")
    /\ fs' \in Written(fs, p, run[p].doc)
    /\ run' = [run EXCEPT ![p].at = None,
                          ![p].pc = IF run[p].static THEN "rename_check"
                                    ELSE "branch"]
    /\ TwoUnchanged

\* line 594, "if os.path.exists(format_pdf)": the merger is called, or
\* (lines 600-602) the dynamic and the static pages are drawn on a new canvas
RunBranch(p) ==
    /\ RunAt(p, "branch")
    /\ run' = IF FormatExists(fs)
                THEN Goto(p, "read_source")
                ELSE [run EXCEPT ![p].pc = "save_open", ![p].static = TRUE,
                                 ![p].doc = StaticDoc(p)]
    /\ UNCHANGED fs
    /\ TwoUnchanged

\* merge_pdf_pages (main.py) line 96: source_reader = PdfReader(source_pdf_path)
RunReadSource(p) ==
    /\ RunAt(p, "read_source")
    /\ run' = IF ReaderRaises(fs, FormatPdf)
                THEN Goto(p, "except")
                ELSE [run EXCEPT ![p].pc = "read_target",
                                 ![p].source_reader = fs[FormatPdf].pages]
    /\ UNCHANGED fs
    /\ TwoUnchanged

\* lines 99-114: target_reader = PdfReader(target_pdf_path); the writer takes
\* the target's pages, then the source's from start_page = 2
RunReadTarget(p) ==
    /\ RunAt(p, "read_target")
    /\ run' = IF ReaderRaises(fs, TempPdf)
                THEN Goto(p, "except")
                ELSE [run EXCEPT
                        ![p].pc = "open_merged",
                        ![p].writer =
                           IF SourceLongEnough(Len(run[p].source_reader), 2)
                             THEN fs[TempPdf].pages
                                    \o SourceSlice(run[p].source_reader, 2)
                             ELSE fs[TempPdf].pages]
    /\ UNCHANGED fs
    /\ TwoUnchanged

\* lines 117-118: open(merged_path, 'wb')
RunOpenMerged(p) ==
    /\ RunAt(p, "open_merged")
    /\ fs' = open_wb(fs, MergedPdf)
    /\ run' = [run EXCEPT ![p].pc = "write_merged", ![p].at = MergedPdf]
    /\ TwoUnchanged

\* line 119: writer.write(output_file); the file is closed
RunWriteMerged(p) ==
    /\ RunAt(p, "write_merged")
    /\ fs' \in Written(fs, p, run[p].writer)
    /\ run' = [run EXCEPT ![p].at = None, ![p].pc = "replace"]
    /\ TwoUnchanged

\* line 122: os.replace(merged_path, target_pdf_path); it raises when the
\* intermediate file is not there any more
RunReplace(p) ==
    /\ RunAt(p, "replace")
    /\ IF os_path_exists(fs, MergedPdf)
         THEN /\ fs' = os_replace(fs, MergedPdf, TempPdf)
              /\ run' = Moved(Goto(p, "rename_check"), MergedPdf, TempPdf)
         ELSE /\ run' = Goto(p, "except")
              /\ UNCHANGED fs
    /\ TwoUnchanged

\* lines 126-128: except Exception: print, return target_pdf_path
RunExcept(p) ==
    /\ RunAt(p, "except")
    /\ run' = [run EXCEPT ![p].pc = "rename_check",
                          ![p].log = Append(@, "error_merging")]
    /\ UNCHANGED fs
    /\ TwoUnchanged

\* line 606: "if os.path.exists(temp_output)"
RunRenameCheck(p) ==
    /\ RunAt(p, "rename_check")
    /\ run' = Goto(p, IF os_path_exists(fs, TempPdf) THEN "rename" ELSE "done")
    /\ UNCHANGED fs
    /\ TwoUnchanged

\* line 607: os.replace(temp_output, output_file); it raises when the temp
\* file is not there any more
RunRename(p) ==
    /\ RunAt(p, "rename")
    /\ IF os_path_exists(fs, TempPdf)
         THEN /\ fs' = os_replace(fs, TempPdf, OutputPdf)
              /\ run' = Moved(Goto(p, "done"), TempPdf, OutputPdf)
         ELSE /\ run' = Goto(p, "raised")
              /\ UNCHANGED fs
    /\ TwoUnchanged

NextTwo ==
    \E p \in Runs :
       \/ RunGenerate(p)
       \/ RunSaveOpen(p)
       \/ RunSaveWrite(p)
       \/ RunBranch(p)
       \/ RunReadSource(p)
       \/ RunReadTarget(p)
       \/ RunOpenMerged(p)
       \/ RunWriteMerged(p)
       \/ RunReplace(p)
       \/ RunExcept(p)
       \/ RunRenameCheck(p)
       \/ RunRename(p)

SpecTwo == InitTwo /\ [][NextTwo]_vars

\* the document a run p that nothing disturbs publishes
CompleteDoc(p) ==
    IF FormatExists(fs)
      THEN DynamicDoc(p) \o SourceSlice(fs[FormatPdf].pages, 2)
      ELSE StaticDoc(p)
\* the file is what the output path held before, or a whole document of one run
Whole(file) ==
    \/ file = output_before
    \/ \E p \in Runs : file = PdfFile(CompleteDoc(p))
\* no run has failed or reported an error
NoRunDisturbed ==
    \A p \in Runs : run[p].pc # "raised" /\ run[p].log = <<>>

\* C26: two runs of main at the same time: under every interleaving of their
\* steps the file at the output path is at every moment absent (or what it
\* was) or a complete document produced by one run, never a partly written
\* file or a mix of the two runs' pages, and no run fails because the other
\* has moved the temp file
C26_ConcurrentRunsKeepOutputWhole == Whole(fs[OutputPdf]) /\ NoRunDisturbed

\* the fields of page 1 that are drawn in blue on purpose
BlueValueSlots == {"account_number", "customer_number"}
UrlSlots == {"welcome_paragraph", "contact_paragraph"}
\* text i of the page is an occurrence of the website drawn as a URL
IsUrlOccurrence(page, i) ==
    page.slots[i] \in UrlSlots /\ page.ops[i].text = website_of(data)

\* C27: on page 1 of the welcome letter, for every website value, every text
\* other than the URL occurrences and the account-number and customer-number
\* values is drawn with black fill, the line drawn right after the welcome
\* paragraph ("Once again we look forward ...") included
C27_Page1TextIsBlack ==
    WelcomeReturned =>
      LET page == PagesOf(canvas_obj)[1] IN
      \A i \in 1..Len(page.ops) :
         (/\ page.ops[i].op = "drawString"
          /\ page.slots[i] \notin BlueValueSlots
          /\ ~IsUrlOccurrence(page, i))
           => page.ops[i].color = BLACK

WelcomeCalled == template = "welcome_letter" /\ gen_pc # "idle"

\* C28: with the empty string as url draw_text_with_urls draws nothing and
\* raises (the empty string occurs in every text, the split on it fails), so
\* generate_welcome_letter fails exactly for the requests whose website is the
\* empty string, before any line of the welcome paragraph is drawn and before
\* a page is completed
C28_EmptyWebsiteRaises ==
    WelcomeCalled =>
      /\ (gen_pc = "raised") = (website_of(data) = <<>>)
      /\ gen_pc = "raised" =>
           /\ canvas_obj.pages = <<>>
           /\ SlotIndexes(OpenPage(canvas_obj), "welcome_paragraph") = {}
           /\ SlotIndexes(OpenPage(canvas_obj), "look_forward") = {}

\* the letter of a request with website "" failed after the title of page 1
C28_Witness ==
    /\ WelcomeRaised
    /\ HasKey(data, "website") /\ data["website"] = <<>>
    /\ SlotIndexes(OpenPage(canvas_obj), "welcome_title") # {}

============================================================================
